---- MODULE Spec2Model ----
(***************************************************************************)
(* Verification model of swarms-rs: the agent runtime (RigAgent::run), the *)
(* concurrent workflow (ConcurrentWorkflow::run / run_batch) and the graph *)
(* workflow (AgentRearrange).  Each subsystem has its own specification;   *)
(* the variables of the other subsystems stay at their initial value.      *)
(***************************************************************************)
EXTENDS Integers, Sequences, FiniteSets, TLC

(***************************************************************************)
(* Bounds of the model                                                     *)
(***************************************************************************)
MaxLoops == 2
MaxRetry == 2
MaxAgents == 2
MaxBatch == 2
MaxEdges == 2
MaxSaves == 2
MaxWorkers == 2
MaxRuns == 2
MaxBatchTasks == 1
MaxAdds == 3
MaxSwarmsRuns == 4
MaxAutoRuns == 2
MaxAutoAgents == 2
MaxConvOps == 3
MaxSwarmAgents == 2
MaxSwarmOps == 4
MaxMultiTasks == 3
MaxCallers == 2
MaxLockCalls == 2
MaxTreeOps == 5

(***************************************************************************)
(* Strings are sequences of characters.                                    *)
(***************************************************************************)
RECURSIVE Concat(_)
Concat(ss) == IF ss = <<>> THEN <<>> ELSE Head(ss) \o Concat(Tail(ss))

\* str::contains: w occurs in s as a contiguous substring
Contains(s, w) ==
    \E i \in 0..(Len(s) - Len(w)) : SubSeq(s, i + 1, i + Len(w)) = w

VARIABLES
    \* ---- RigAgent ----
    config,            \* AgentConfig of the agent
    long_term_memory,  \* TRUE iff the agent has a vector index (Some)
    short_memory,      \* AgentShortMemory: task key -> conversation history
    task,              \* the argument of run
    pc,                \* position of run
    loop_count,        \* _loop_count
    attempt,           \* attempt
    success,
    task_prompt,
    last_response,
    all_responses,
    result,            \* what run returned
    save_file,         \* conversation in the checkpoint file of the task (<<>>: no file)
    trace              \* history of run: calls issued and messages appended

agentVars == <<config, long_term_memory, short_memory, task, pc, loop_count,
               attempt, success, task_prompt, last_response, all_responses,
               result, save_file, trace>>

VARIABLES
    \* ---- ConcurrentWorkflow ----
    agents,                \* number of agents of the workflow (agents 1..agents)
    tasks,                 \* DashSet of the accepted tasks
    conversation,          \* AgentShortMemory of the workflow: task -> history
    metadata_map,          \* MetadataSchemaMap: task -> metadata
    files,                 \* metadata_output_dir: file name -> metadata
    collision,             \* TRUE iff the task digests of the tasks collide
    mode,                  \* "batch": run_batch(batch_tasks); "direct": run called per task
    batch_tasks,           \* the tasks; call r of run has the task batch_tasks[r]
    run_pc,                \* position of each call of run
    producer,              \* per call and agent: outcome of the agent run and state of its send
    chan,                  \* per call: the mpsc channel of agent outputs
    agents_output_schema,  \* per call: the outputs collected by the fan-in loop
    run_result,            \* per call: what run returned
    arrival,               \* per call: agents in the order in which their outputs were sent
    fanouts,               \* per task: how often a call fanned it out to the agents
    batch_pc,              \* position of run_batch
    batch_chan,            \* the mpsc channel of run_batch
    results,               \* the DashMap run_batch fills
    batch_result           \* what run_batch returned

cwVars == <<agents, tasks, conversation, metadata_map, files, collision, mode,
            batch_tasks, run_pc, producer, chan, agents_output_schema, run_result,
            arrival, fanouts, batch_pc, batch_chan, results, batch_result>>

VARIABLES
    \* ---- AgentRearrange ----
    graph_agents,   \* agents: the names of the registered agents
    workflow,       \* the StableGraph of agent nodes and flows
    name_to_node,   \* agent name -> node index
    last_call       \* the last call on the AgentRearrange and what it returned

graphVars == <<graph_agents, workflow, name_to_node, last_call>>

VARIABLES
    \* ---- AgentRearrange::execute_workflow ----
    exec_pc,        \* "idle", "running" (an agent is awaited), "done"
    stack,          \* the pending calls of execute_node, the innermost last
    node_results,   \* last_result of the nodes: node index -> result
    exec_results,   \* the result map: agent name -> result
    exec_return,    \* what execute_workflow returned
    exec_log        \* the agent runs of the call, in order: name, input, result

execVars == <<exec_pc, stack, node_results, exec_results, exec_return, exec_log>>

VARIABLES
    \* ---- save_state: the file system and the calls of save ----
    parent_exists,  \* TRUE iff the parent directory of the target exists
    fs,             \* "target", "tmp", "bak" -> contents of the file, or NoFile
    save_pc,        \* position of each call of save
    save_result,    \* what each call returned
    pre_call,       \* the contents of the target when each call started
    overlapped      \* TRUE iff a call started while another call was running

saveVars == <<parent_exists, fs, save_pc, save_result, pre_call, overlapped>>

VARIABLES
    \* ---- MultiAgentOrchestrator ----
    orch_agents,          \* the workers given to new: sequence of [name, description]
    enable_execute_task,  \* the flag given to new
    orch_new,             \* what new returned
    router_conversation,  \* router memory: task -> sequence of messages
    orch_pc,              \* position of each call of run
    orch_local,           \* the locals of each call of run
    orch_result,          \* what each call of run returned
    worker_runs,          \* history: the calls of a worker's run made by each call of run
    orch_batch            \* the call of run_batch: position, tasks, channel, results

orchVars == <<orch_agents, enable_execute_task, orch_new, router_conversation,
              orch_pc, orch_local, orch_result, worker_runs, orch_batch>>

VARIABLES
    \* ---- AgentShortMemory ----
    shared_memory,  \* task -> the history of the conversation of the task
    mem_lock,     \* task -> the call of add that holds its entry, or 0
    add_pc,       \* position of each call of add
    add_local,    \* the task and message of each call, and the length it read
    took_effect   \* history: the calls of add in the order their push took effect

memVars == <<shared_memory, mem_lock, add_pc, add_local, took_effect>>

VARIABLES
    \* ---- SwarmsAgent ----
    sw_memory,   \* short_memory: task -> conversation
    sw_pc,       \* position of run
    sw_task,     \* the task of the call of run
    sw_history,  \* the chat history given to the model
    sw_result,   \* what the last call of run returned
    sw_runs      \* number of calls of run made

swVars == <<sw_memory, sw_pc, sw_task, sw_history, sw_result, sw_runs>>

VARIABLES
    \* ---- AutoSwarm ----
    auto_pc,      \* position of run
    auto_local,   \* the task of run, how the boss response parsed, the agents handed over
    auto_result,  \* what the last call of run returned
    auto_log,     \* history: what each finished call of run returned
    sub_swarm     \* history: the task and agents the sub-swarm ran

autoVars == <<auto_pc, auto_local, auto_result, auto_log, sub_swarm>>

VARIABLES
    \* ---- AgentConversation ----
    conv_history,  \* history: the messages of the conversation
    conv_pc,       \* "ready", or "panicked" once an operation panicked
    conv_out,      \* what the last query or search returned
    conv_ops,      \* number of operations called
    conv_export    \* file (the contents of the export file) and imports (the
                   \* number of calls of import_from_file)

convVars == <<conv_history, conv_pc, conv_out, conv_ops, conv_export>>

VARIABLES
    \* ---- BaseSwarm ----
    swarm_agents,       \* agents: the agent list
    agents_dict,        \* the name index: agent name -> index in the list
    swarm_initialized,  \* history: initialize has been called
    swarm_ops           \* number of operations called

swarmVars == <<swarm_agents, agents_dict, swarm_initialized, swarm_ops>>

VARIABLES
    \* ---- RigAgent::run_multiple_tasks ----
    mt  \* one call: tasks (the list given), pc (its position), future (per task:
        \* outcome of agent.run and state of the send of its result), chan (the
        \* mpsc channel of (task, result)), results (the outputs collected by the
        \* fan-in loop), result (what the call returned)

mtVars == <<mt>>

VARIABLES
    \* ---- BaseSwarm: concurrent callers of initialize and get_agent_by_name ----
    lk  \* holder (the mutexes agents and agents_dict: the caller holding it, 0 if
        \* free) and, per caller, pc (its position in its call), call (the call it
        \* is in), out (what its last get_agent_by_name returned), calls (the
        \* number of calls it made)

lkVars == <<lk>>

VARIABLES
    \* ---- TreeSwarm (its base swarm is the BaseSwarm above) ----
    tree  \* nodes (node id -> [children, parent, depth]), root_id (the id of the
          \* root node, "None" before initialize), config (max_depth and
          \* branching_factor), last (history: the last call and what it returned),
          \* ops (the number of operations called)

treeVars == <<tree>>

vars == <<agentVars, cwVars, graphVars, execVars, saveVars, orchVars, memVars, swVars, autoVars, convVars, swarmVars, mtVars, lkVars, treeVars>>

(***************************************************************************)
(* RigAgent                                                                *)
(***************************************************************************)
AgentName == <<"A">>
UserName == <<"u">>
RagName == <<"[RAG] Database">>
AgentTasks == {<<"t">>}
Responses == {<<"a">>, <<"b", "D">>}
Plans == {<<"p">>}
Docs == {<<"d">>}
StopWordSets == {{}, {<<"D">>}, {<<"a", "a">>, <<"b">>}}

NoValue == <<"-">>

Message(role, name, content) == [role |-> role, name |-> name, content |-> content]

\* Display of a conversation: one line "{name}({role}): {content}" per message
to_string(conv) ==
    Concat([i \in 1..Len(conv) |->
              conv[i].name \o <<"(", conv[i].role, ")", ":", " ">>
                \o conv[i].content \o <<"\n">>])

\* AgentShortMemory::add: creates the conversation of the key on first use
MemAdd(mem, key, role, name, content) ==
    IF key \in DOMAIN mem
      THEN [mem EXCEPT ![key] = Append(@, Message(role, name, content))]
      ELSE mem @@ (key :> <<Message(role, name, content)>>)

\* is_response_complete: any stop word is contained in the response
is_response_complete_equal(response) == response \in config.stop_words
is_response_complete(response) ==
    \E word \in config.stop_words : Contains(response, word)

Configs ==
    { c \in [max_loops : 0..MaxLoops, retry_attempts : 0..MaxRetry,
             plan_enabled : BOOLEAN, planning_prompt : BOOLEAN,
             autosave : BOOLEAN, save_sate_path : BOOLEAN,
             rag_every_loop : BOOLEAN, stop_words : StopWordSets] :
        /\ c.planning_prompt => c.plan_enabled
        /\ c.save_sate_path => c.autosave }

EarlierRun(t) == <<Message("User", UserName, t), Message("Assistant", AgentName, <<"a">>)>>

NoTrace == [chat |-> 0, prompt |-> 0, top_n |-> 0, rag_failed |-> 0, iterations |-> 0,
            appended |-> <<>>, stop_at |-> 0, exhausted |-> FALSE,
            checkpoint_failed |-> FALSE, dropped |-> FALSE]

InitAgent ==
    /\ config \in Configs
    /\ long_term_memory \in BOOLEAN
    /\ (config.rag_every_loop => long_term_memory)
    /\ task \in AgentTasks
    /\ short_memory \in {<<>>, (task :> EarlierRun(task))}
    /\ pc = "ingest"
    /\ loop_count = 0
    /\ attempt = 0
    /\ success = FALSE
    /\ task_prompt = <<>>
    /\ last_response = <<>>
    /\ all_responses = <<>>
    /\ result = [kind |-> "none", value |-> NoValue]
    /\ save_file = <<>>
    /\ trace = NoTrace

\* run returns early with an error (the ? operator) or panics
Return(kind) ==
    /\ pc' = "done"
    /\ result' = [kind |-> kind, value |-> NoValue]

\* save_task_state: without a save path nothing is written and Ok is
\* returned; otherwise the conversation of the task is serialized and saved,
\* which can fail
SaveOutcomes == IF config.save_sate_path THEN {"Ok", "Err"} ELSE {"Ok"}
Saved(mem, outcome) ==
    IF config.save_sate_path /\ outcome = "Ok" THEN mem[task] ELSE save_file

\* handle_error_in_attempts: logs; with autosave a checkpoint whose error is dropped
HandleError(outcome) ==
    save_file' = IF config.autosave THEN Saved(short_memory, outcome) ELSE save_file

\* handle_error_in_attempts, lines 187-194: `let _ =` drops the result of the
\* checkpoint, the handler returns nothing to run
HandlerRaises_checkpoint_error(outcome) == config.autosave /\ outcome = "Err"
HandlerRaises(outcome) == FALSE

\* the handler made a checkpoint and it failed
Dropped(outcome) == config.autosave /\ outcome = "Err"

\* run, lines 245-249 and 273-279: the attempt failed, the handler is awaited
\* and the loop over the attempts continues
FailedAttempt(outcome) ==
    /\ HandleError(outcome)
    /\ IF HandlerRaises(outcome)
         THEN Return("Err") /\ UNCHANGED attempt
         ELSE /\ attempt' = attempt + 1
              /\ pc' = "attempt"
              /\ UNCHANGED result

\* run, lines 209-216: the task is added as a User message
Ingest ==
    /\ pc = "ingest"
    /\ short_memory' = MemAdd(short_memory, task, "User", UserName, task)
    /\ pc' = "plan"
    /\ UNCHANGED <<config, long_term_memory, task, loop_count, attempt, success,
                   task_prompt, last_response, all_responses, result, save_file, trace>>

\* run, lines 219-221, and plan
Plan ==
    /\ pc = "plan"
    /\ IF config.plan_enabled /\ config.planning_prompt
         THEN \/ /\ Return("Err")
                 /\ trace' = [trace EXCEPT !.prompt = @ + 1]
                 /\ UNCHANGED short_memory
              \/ \E plan \in Plans :
                   /\ short_memory' = MemAdd(short_memory, task, "Assistant", AgentName, plan)
                   /\ trace' = [trace EXCEPT !.prompt = @ + 1]
                   /\ pc' = "rag"
                   /\ UNCHANGED result
         ELSE /\ pc' = "rag"
              /\ UNCHANGED <<short_memory, result, trace>>
    /\ UNCHANGED <<config, long_term_memory, task, loop_count, attempt, success,
                   task_prompt, last_response, all_responses, save_file>>

\* query_long_term_memory(key): top_n(key, 1) fails, returns no document
\* (indexing [0] panics) or returns a document that is added under key
RagOutcomes ==
    {[kind |-> k, doc |-> <<>>] : k \in {"Err", "Panic"}}
      \cup {[kind |-> "Ok", doc |-> d] : d \in Docs}
RagAdd(mem, key, doc) ==
    MemAdd(mem, key, "User", RagName, <<"Documents Available: ">> \o doc)

\* run, lines 224-226
Rag ==
    /\ pc = "rag"
    /\ IF long_term_memory
         THEN \E o \in RagOutcomes :
                /\ trace' = [trace EXCEPT !.top_n = @ + 1]
                /\ IF o.kind = "Ok"
                     THEN /\ short_memory' = RagAdd(short_memory, task, o.doc)
                          /\ pc' = "save"
                          /\ UNCHANGED result
                     ELSE /\ Return(o.kind)
                          /\ UNCHANGED short_memory
         ELSE /\ pc' = "save"
              /\ UNCHANGED <<short_memory, result, trace>>
    /\ UNCHANGED <<config, long_term_memory, task, loop_count, attempt, success,
                   task_prompt, last_response, all_responses, save_file>>

\* run, lines 229-231
SaveBeforeLoop ==
    /\ pc = "save"
    /\ IF config.autosave
         THEN \E o \in SaveOutcomes :
                /\ save_file' = Saved(short_memory, o)
                /\ IF o = "Ok"
                     THEN pc' = "loop" /\ UNCHANGED <<result, trace>>
                     ELSE /\ Return("Err")
                          /\ trace' = [trace EXCEPT !.checkpoint_failed = TRUE]
         ELSE /\ pc' = "loop"
              /\ UNCHANGED <<result, save_file, trace>>
    /\ UNCHANGED <<config, long_term_memory, short_memory, task, loop_count, attempt,
                   success, task_prompt, last_response, all_responses>>

\* run, line 236: for _loop_count in 0..max_loops
LoopContinues_inclusive(count) == count <= config.max_loops
LoopContinues(count) == count < config.max_loops

\* run, lines 236-238: head of the for loop over 0..max_loops
LoopHead ==
    /\ pc = "loop"
    /\ IF LoopContinues(loop_count)
         THEN /\ success' = FALSE
              /\ task_prompt' = to_string(short_memory[task])
              /\ attempt' = 0
              /\ trace' = [trace EXCEPT !.iterations = @ + 1]
              /\ pc' = "attempt"
         ELSE /\ pc' = "final_save"
              /\ UNCHANGED <<success, task_prompt, attempt, trace>>
    /\ UNCHANGED <<config, long_term_memory, short_memory, task, loop_count,
                   last_response, all_responses, result, save_file>>

\* run, line 248: `continue` after a failed retrieval, the completion call of
\* the attempt is skipped
SkipsChat_falls_through == FALSE
SkipsChat == TRUE

\* run, lines 246-249: the retrieval of the attempt failed
FailedRetrieval(outcome) ==
    IF SkipsChat
      THEN FailedAttempt(outcome)
      ELSE /\ HandleError(outcome)
           /\ pc' = "chat"
           /\ UNCHANGED <<attempt, result>>

\* run, lines 239-250: head of the for loop over 0..retry_attempts and the
\* retrieval of the attempt
AttemptRag ==
    /\ pc = "attempt"
    /\ IF attempt < config.retry_attempts /\ ~success
         THEN IF long_term_memory /\ config.rag_every_loop
                THEN \E o \in RagOutcomes :
                       CASE o.kind = "Ok" ->
                              /\ short_memory' = RagAdd(short_memory, task_prompt, o.doc)
                              /\ pc' = "chat"
                              /\ trace' = [trace EXCEPT !.top_n = @ + 1]
                              /\ UNCHANGED <<attempt, result, save_file>>
                         [] o.kind = "Err" ->
                              /\ \E s \in SaveOutcomes :
                                    /\ FailedRetrieval(s)
                                    /\ trace' = [trace EXCEPT !.top_n = @ + 1,
                                                              !.rag_failed = @ + 1,
                                                              !.dropped = @ \/ Dropped(s)]
                              /\ UNCHANGED short_memory
                         [] OTHER ->
                              /\ Return(o.kind)
                              /\ trace' = [trace EXCEPT !.top_n = @ + 1]
                              /\ UNCHANGED <<short_memory, attempt, save_file>>
                ELSE /\ pc' = "chat"
                     /\ UNCHANGED <<short_memory, attempt, result, save_file, trace>>
         ELSE /\ pc' = "attempts_done"
              /\ UNCHANGED <<short_memory, attempt, result, save_file, trace>>
    /\ UNCHANGED <<config, long_term_memory, task, loop_count, success, task_prompt,
                   last_response, all_responses>>

\* run, lines 253-279: the completion call of the attempt
AttemptChat ==
    /\ pc = "chat"
    /\ \/ /\ \E s \in SaveOutcomes :
               /\ FailedAttempt(s)
               /\ trace' = [trace EXCEPT !.chat = @ + 1, !.dropped = @ \/ Dropped(s)]
          /\ UNCHANGED <<short_memory, last_response, all_responses, success>>
       \/ \E response \in Responses :
            /\ last_response' = response
            /\ short_memory' = MemAdd(short_memory, task, "Assistant", AgentName, response)
            /\ all_responses' = Append(all_responses, response)
            /\ success' = TRUE
            /\ trace' = [trace EXCEPT !.chat = @ + 1,
                                      !.appended = Append(@, response),
                                      !.stop_at =
                                          IF @ = 0 /\ \E w \in config.stop_words : Contains(response, w)
                                            THEN trace.iterations ELSE @]
            /\ attempt' = attempt + 1
            /\ pc' = "attempt"
            /\ UNCHANGED <<save_file, result>>
    /\ UNCHANGED <<config, long_term_memory, task, loop_count, task_prompt>>

\* run, lines 282-285: all attempts of the iteration failed
BreakOnFailure_never(succ) == FALSE
BreakOnFailure(succ) == ~succ

\* run, lines 282-292: the end of a loop iteration
EndOfIteration ==
    /\ pc = "attempts_done"
    /\ IF BreakOnFailure(success)
         THEN /\ pc' = "final_save"
              /\ UNCHANGED loop_count
         ELSE IF is_response_complete(last_response)
                THEN /\ pc' = "final_save"
                     /\ UNCHANGED loop_count
                ELSE /\ loop_count' = loop_count + 1
                     /\ pc' = "loop"
    /\ trace' = [trace EXCEPT !.exhausted = @ \/ ~success]
    /\ UNCHANGED <<config, long_term_memory, short_memory, task, attempt, success,
                   task_prompt, last_response, all_responses, result, save_file>>

\* run, line 305: Ok(all_responses.concat())
FinalResult_error_after_retries(responses) ==
    IF success THEN [kind |-> "Ok", value |-> Concat(responses)]
               ELSE [kind |-> "Err", value |-> NoValue]
FinalResult_last_only(responses) == [kind |-> "Ok", value |-> last_response]
FinalResult(responses) == [kind |-> "Ok", value |-> Concat(responses)]

\* run, lines 298-305
FinalSave ==
    /\ pc = "final_save"
    /\ pc' = "done"
    /\ IF config.autosave
         THEN \E o \in SaveOutcomes :
                /\ save_file' = Saved(short_memory, o)
                /\ IF o = "Ok"
                     THEN /\ result' = FinalResult(all_responses)
                          /\ UNCHANGED trace
                     ELSE /\ result' = [kind |-> "Err", value |-> NoValue]
                          /\ trace' = [trace EXCEPT !.checkpoint_failed = TRUE]
         ELSE /\ result' = FinalResult(all_responses)
              /\ UNCHANGED <<save_file, trace>>
    /\ UNCHANGED <<config, long_term_memory, short_memory, task, loop_count, attempt,
                   success, task_prompt, last_response, all_responses>>

AgentStep ==
    \/ Ingest
    \/ Plan
    \/ Rag
    \/ SaveBeforeLoop
    \/ LoopHead
    \/ AttemptRag
    \/ AttemptChat
    \/ EndOfIteration
    \/ FinalSave

\* an agent that is not run
IdleAgent ==
    /\ config = [max_loops |-> 1, retry_attempts |-> 3, plan_enabled |-> FALSE,
                 planning_prompt |-> FALSE, autosave |-> FALSE,
                 save_sate_path |-> FALSE, rag_every_loop |-> FALSE,
                 stop_words |-> {}]
    /\ long_term_memory = FALSE
    /\ task = <<>>
    /\ short_memory = <<>>
    /\ pc = "done"
    /\ loop_count = 0
    /\ attempt = 0
    /\ success = FALSE
    /\ task_prompt = <<>>
    /\ last_response = <<>>
    /\ all_responses = <<>>
    /\ result = [kind |-> "none", value |-> NoValue]
    /\ save_file = <<>>
    /\ trace = NoTrace

(***************************************************************************)
(* ConcurrentWorkflow                                                      *)
(***************************************************************************)
WorkflowName == "Workflow"
AgentNames == <<"A1", "A2", "A3", "A4">>
WorkflowTasks == {"", "T1", "T2"}
Runs == 1..MaxBatch
Calls == 1..Len(batch_tasks)
Agents == 1..agents

\* lower 32 bits of the XXH3 hash of the task, in hex: distinct tasks can
\* have the same digest
Digest(t) ==
    IF collision THEN "c0ffee"
    ELSE CASE t = "T1" -> "1d5a3c07" [] t = "T2" -> "9e02b4f1" [] OTHER -> "2d06800"

NoResult == [kind |-> "none", conversation |-> <<>>]

\* one future of the fan-out of run: the result of the agent run and what
\* became of its output
Future(outcome, tx) == [run |-> outcome, tx |-> tx]

\* run_agent_with_output_schema: the AgentOutputSchema of a successful agent run
OutputSchema(a, t) == [agent_name |-> AgentNames[a], task |-> t, output |-> <<"output of", AgentNames[a]>>]

\* MetadataSchema assembled by run, lines 152-158
Metadata(t, outputs) == [task |-> t, agents_output_schema |-> outputs]

\* the tasks of the caller: a direct caller makes one call of run, run_batch
\* makes one call of run per task of its list, all of them concurrent.  The
\* names of the tasks are interchangeable, so a list names "T1" before "T2";
\* the calls of a batch are concurrent and start in any order, so the
\* positions of a list are interchangeable too and a list is written in the
\* order "", "T1", "T2".
TaskRank(t) == CASE t = "" -> 0 [] t = "T1" -> 1 [] OTHER -> 2

TaskLists(m) ==
    {l \in UNION {[1..n -> WorkflowTasks] : n \in 0..MaxBatch} :
       /\ m = "direct" => Len(l) <= 1
       /\ \A i \in DOMAIN l : l[i] = "T2" => \E j \in 1..(i - 1) : l[j] = "T1"
       /\ \A i \in 1..(Len(l) - 1) : TaskRank(l[i]) <= TaskRank(l[i + 1])}

InitWorkflow ==
    /\ agents \in 0..MaxAgents
    /\ tasks = {}
    /\ conversation = <<>>
    /\ metadata_map = <<>>
    /\ files = <<>>
    /\ collision \in BOOLEAN
    /\ mode \in {"batch", "direct"}
    /\ batch_tasks \in TaskLists(mode)
    /\ run_pc = [r \in Runs |-> IF mode = "direct" /\ r <= Len(batch_tasks) THEN "start" ELSE "idle"]
    /\ producer = [r \in Runs |-> [a \in Agents |-> Future("idle", "none")]]
    /\ chan = [r \in Runs |-> <<>>]
    /\ agents_output_schema = [r \in Runs |-> <<>>]
    /\ run_result = [r \in Runs |-> NoResult]
    /\ arrival = [r \in Runs |-> <<>>]
    /\ fanouts = [t \in WorkflowTasks |-> 0]
    /\ batch_pc = IF mode = "batch" THEN "start" ELSE "none"
    /\ batch_chan = <<>>
    /\ results = <<>>
    /\ batch_result = NoResult

\* a workflow that is not run
IdleWorkflow ==
    /\ agents = 0
    /\ tasks = {}
    /\ conversation = <<>>
    /\ metadata_map = <<>>
    /\ files = <<>>
    /\ collision = FALSE
    /\ mode = "direct"
    /\ batch_tasks = <<>>
    /\ run_pc = [r \in Runs |-> "idle"]
    /\ producer = [r \in Runs |-> <<>>]
    /\ chan = [r \in Runs |-> <<>>]
    /\ agents_output_schema = [r \in Runs |-> <<>>]
    /\ run_result = [r \in Runs |-> NoResult]
    /\ arrival = [r \in Runs |-> <<>>]
    /\ fanouts = [t \in WorkflowTasks |-> 0]
    /\ batch_pc = "none"
    /\ batch_chan = <<>>
    /\ results = <<>>
    /\ batch_result = NoResult

\* DashMap::insert
MapInsert(map, key, value) ==
    IF key \in DOMAIN map THEN [map EXCEPT ![key] = value] ELSE map @@ (key :> value)

\* run, line 108: DashSet::insert returns true iff the task was not in the set
Accepts_always(t) == TRUE
Accepts(t) == t \notin tasks

\* run, lines 103-113: the checks, the insertion into the task set and the
\* User message; nothing is awaited in between
RunStart(r) ==
    /\ r \in Calls
    /\ run_pc[r] = "start"
    /\ LET t == batch_tasks[r] IN
       IF t = "" \/ agents = 0
         THEN /\ run_result' = [run_result EXCEPT ![r] =
                                   [kind |-> "EmptyTasksOrAgents", conversation |-> <<>>]]
              /\ run_pc' = [run_pc EXCEPT ![r] = "returned"]
              /\ UNCHANGED <<tasks, conversation, producer, fanouts>>
         ELSE IF ~Accepts(t)
           THEN /\ run_result' = [run_result EXCEPT ![r] =
                                     [kind |-> "TaskAlreadyExists", conversation |-> <<>>]]
                /\ run_pc' = [run_pc EXCEPT ![r] = "returned"]
                /\ UNCHANGED <<tasks, conversation, producer, fanouts>>
           ELSE /\ tasks' = tasks \cup {t}
                /\ conversation' = MemAdd(conversation, t, "User", "User", t)
                /\ producer' = [producer EXCEPT ![r] = [a \in Agents |-> Future("running", "none")]]
                /\ fanouts' = [fanouts EXCEPT ![t] = @ + 1]
                /\ run_pc' = [run_pc EXCEPT ![r] = "fanout"]
                /\ UNCHANGED run_result
    /\ UNCHANGED <<agents, metadata_map, files, collision, mode, batch_tasks, chan,
                   agents_output_schema, arrival, batch_pc, batch_chan, results,
                   batch_result>>

\* run, line 115: mpsc::channel(self.agents.len())
Capacity_one_short == agents - 1
Capacity == agents

\* run, lines 122-135: the output of a successful agent is sent, a failed
\* agent is logged and sends nothing
OutputIsSent_always(outcome) == TRUE
OutputIsSent(outcome) == outcome = "Ok"

\* run, lines 118-137: one future of the fan-out completes
AgentCompletes(r, a) ==
    /\ r \in Calls /\ a \in Agents
    /\ run_pc[r] = "fanout"
    /\ producer[r][a].run = "running"
    /\ \E outcome \in {"Ok", "Err"} :
         IF OutputIsSent(outcome)
           THEN IF Len(chan[r]) < Capacity
                  THEN /\ chan' = [chan EXCEPT ![r] = Append(@, OutputSchema(a, batch_tasks[r]))]
                       /\ arrival' = [arrival EXCEPT ![r] = Append(@, a)]
                       /\ producer' = [producer EXCEPT ![r][a] = Future(outcome, "sent")]
                  ELSE /\ producer' = [producer EXCEPT ![r][a] = Future(outcome, "blocked")]
                       /\ UNCHANGED <<chan, arrival>>
           ELSE /\ producer' = [producer EXCEPT ![r][a] = Future(outcome, "dropped")]
                /\ UNCHANGED <<chan, arrival>>
    /\ UNCHANGED <<agents, tasks, conversation, metadata_map, files, collision, mode,
                   batch_tasks, run_pc, agents_output_schema, run_result, fanouts,
                   batch_pc, batch_chan, results, batch_result>>

\* run, lines 138-141: all futures of the fan-out completed, tx is dropped
FanoutDone(r) ==
    /\ r \in Calls
    /\ run_pc[r] = "fanout"
    /\ \A a \in Agents : producer[r][a].tx \in {"sent", "dropped"}
    /\ run_pc' = [run_pc EXCEPT ![r] = "recv"]
    /\ UNCHANGED <<agents, tasks, conversation, metadata_map, files, collision, mode,
                   batch_tasks, producer, chan, agents_output_schema, run_result,
                   arrival, fanouts, batch_pc, batch_chan, results, batch_result>>

\* run, line 149: agents_output_schema.push(output_schema)
PushSchema_front(list, schema) == <<schema>> \o list
PushSchema(list, schema) == Append(list, schema)

\* run, lines 142-150: one iteration of the fan-in loop
Recv(r) ==
    /\ r \in Calls
    /\ run_pc[r] = "recv"
    /\ chan[r] # <<>>
    /\ LET output_schema == Head(chan[r]) IN
         /\ conversation' = MemAdd(conversation, batch_tasks[r], "Assistant",
                                   output_schema.agent_name, output_schema.output)
         /\ agents_output_schema' =
               [agents_output_schema EXCEPT ![r] = PushSchema(@, output_schema)]
    /\ chan' = [chan EXCEPT ![r] = Tail(@)]
    /\ UNCHANGED <<agents, tasks, metadata_map, files, collision, mode, batch_tasks,
                   run_pc, producer, run_result, arrival, fanouts, batch_pc,
                   batch_chan, results, batch_result>>

\* run, lines 152-169: the channel is closed and empty; the metadata is
\* assembled and added to the metadata map
RecordMetadata(r) ==
    /\ r \in Calls
    /\ run_pc[r] = "recv"
    /\ chan[r] = <<>>
    /\ metadata_map' = MapInsert(metadata_map, batch_tasks[r],
                                 Metadata(batch_tasks[r], agents_output_schema[r]))
    /\ run_pc' = [run_pc EXCEPT ![r] = "save"]
    /\ UNCHANGED <<agents, tasks, conversation, files, collision, mode, batch_tasks,
                   producer, chan, agents_output_schema, run_result, arrival, fanouts,
                   batch_pc, batch_chan, results, batch_result>>

\* run, lines 172-173: the `?` returns the serialization or persistence error;
\* the task set is not touched
TasksAfterFailure_rollback(t) == tasks \ {t}
TasksAfterFailure(t) == tasks

\* run, lines 169-173: the metadata is serialized and saved, which can fail;
\* run returns that error or the conversation of the task
SaveMetadata(r) ==
    /\ r \in Calls
    /\ run_pc[r] = "save"
    /\ LET t == batch_tasks[r] IN
       \/ /\ files' = MapInsert(files, Digest(t), Metadata(t, agents_output_schema[r]))
          /\ run_result' = [run_result EXCEPT ![r] =
                               [kind |-> "Ok", conversation |-> conversation[t]]]
          /\ UNCHANGED tasks
       \/ /\ run_result' = [run_result EXCEPT ![r] =
                               [kind |-> "FilePersistenceError", conversation |-> <<>>]]
          /\ tasks' = TasksAfterFailure(t)
          /\ UNCHANGED files
    /\ run_pc' = [run_pc EXCEPT ![r] = "returned"]
    /\ UNCHANGED <<agents, conversation, metadata_map, collision, mode,
                   batch_tasks, producer, chan, agents_output_schema, arrival, fanouts,
                   batch_pc, batch_chan, results, batch_result>>

\* run_batch, lines 181-196: the checks and the start of the fan-out over the tasks
BatchStart ==
    /\ batch_pc = "start"
    /\ IF batch_tasks = <<>> \/ agents = 0
         THEN /\ batch_result' = [kind |-> "EmptyTasksOrAgents", conversation |-> <<>>]
              /\ batch_pc' = "done"
              /\ UNCHANGED run_pc
         ELSE /\ run_pc' = [r \in Runs |-> IF r \in Calls THEN "start" ELSE "idle"]
              /\ batch_pc' = "fanout"
              /\ UNCHANGED batch_result
    /\ UNCHANGED <<agents, tasks, conversation, metadata_map, files, collision, mode,
                   batch_tasks, producer, chan, agents_output_schema, run_result,
                   arrival, fanouts, batch_chan, results>>

\* run_batch, lines 192-193: a call of run returned and its result is sent
\* into the channel, whose capacity is the number of tasks
BatchSend(r) ==
    /\ r \in Calls
    /\ batch_pc = "fanout"
    /\ run_pc[r] = "returned"
    /\ Len(batch_chan) < Len(batch_tasks)
    /\ batch_chan' = Append(batch_chan, r)
    /\ run_pc' = [run_pc EXCEPT ![r] = "sent"]
    /\ UNCHANGED <<agents, tasks, conversation, metadata_map, files, collision, mode,
                   batch_tasks, producer, chan, agents_output_schema, run_result,
                   arrival, fanouts, batch_pc, results, batch_result>>

\* run_batch, lines 196-197: all futures completed, tx is dropped
BatchFanoutDone ==
    /\ batch_pc = "fanout"
    /\ \A r \in Calls : run_pc[r] = "sent"
    /\ batch_pc' = "recv"
    /\ UNCHANGED <<agents, tasks, conversation, metadata_map, files, collision, mode,
                   batch_tasks, run_pc, producer, chan, agents_output_schema,
                   run_result, arrival, fanouts, batch_chan, results, batch_result>>

\* run_batch, lines 200-207: Ok results are inserted, errors are logged
Collects_all(res) == TRUE
Collects(res) == res.kind = "Ok"

\* run_batch, lines 199-208: one iteration of the fan-in loop
BatchRecv ==
    /\ batch_pc = "recv"
    /\ batch_chan # <<>>
    /\ LET r == Head(batch_chan) IN
         results' = IF Collects(run_result[r])
                      THEN MapInsert(results, batch_tasks[r], run_result[r].conversation)
                      ELSE results
    /\ batch_chan' = Tail(batch_chan)
    /\ UNCHANGED <<agents, tasks, conversation, metadata_map, files, collision, mode,
                   batch_tasks, run_pc, producer, chan, agents_output_schema,
                   run_result, arrival, fanouts, batch_pc, batch_result>>

\* run_batch, line 210
BatchReturn ==
    /\ batch_pc = "recv"
    /\ batch_chan = <<>>
    /\ batch_result' = [kind |-> "Ok", conversation |-> results]
    /\ batch_pc' = "done"
    /\ UNCHANGED <<agents, tasks, conversation, metadata_map, files, collision, mode,
                   batch_tasks, run_pc, producer, chan, agents_output_schema,
                   run_result, arrival, fanouts, batch_chan, results>>

WorkflowStep ==
    \/ \E r \in Runs : RunStart(r)
    \/ \E r \in Runs : \E a \in 1..MaxAgents : AgentCompletes(r, a)
    \/ \E r \in Runs : FanoutDone(r)
    \/ \E r \in Runs : Recv(r)
    \/ \E r \in Runs : RecordMetadata(r)
    \/ \E r \in Runs : SaveMetadata(r)
    \/ BatchStart
    \/ \E r \in Runs : BatchSend(r)
    \/ BatchFanoutDone
    \/ BatchRecv
    \/ BatchReturn

(***************************************************************************)
(* AgentRearrange: the graph workflow                                      *)
(***************************************************************************)
GraphAgentNames == {"a", "b", "c"}
\* Flow: the optional transform and the optional condition of an edge
DefaultFlow == [transform |-> "none", condition |-> "none"]
ConditionalFlow == [transform |-> "summary", condition |-> "long"]
Flows == {DefaultFlow, ConditionalFlow}

\* StableGraph: node and edge indices count from 0 and stay valid when other
\* nodes or edges are removed; the slot of a removed node or edge is vacant and
\* is reused, last removed first, by the next insertion.  Index i is kept at
\* position i + 1 of the sequences.
VacantNode == "vacant"
VacantEdge == [from |-> -1, to |-> -1, flow |-> [transform |-> "vacant", condition |-> "vacant"]]
EmptyGraph == [nodes |-> <<>>, free_node |-> <<>>, edges |-> <<>>, free_edge |-> <<>>,
               out |-> <<>>, inc |-> <<>>]

Without(list, x) == SelectSeq(list, LAMBDA y : y # x)

node_indices(g) == {i \in 0..(Len(g.nodes) - 1) : g.nodes[i + 1] # VacantNode}
edge_indices(g) == {e \in 0..(Len(g.edges) - 1) : g.edges[e + 1] # VacantEdge}
node_count(g) == Cardinality(node_indices(g))
edge_count(g) == Cardinality(edge_indices(g))

\* StableGraph::add_node: the graph with the node and the index of the node
add_node(g, name) ==
    IF g.free_node # <<>>
      THEN [graph |-> [g EXCEPT !.nodes[Head(g.free_node) + 1] = name,
                                !.free_node = Tail(@)],
            index |-> Head(g.free_node)]
      ELSE [graph |-> [g EXCEPT !.nodes = Append(@, name),
                                !.out = Append(@, <<>>),
                                !.inc = Append(@, <<>>)],
            index |-> Len(g.nodes)]

\* StableGraph::add_edge: the new edge becomes the first of the outgoing edges
\* of a and of the incoming edges of b
add_edge(g, a, b, flow) ==
    LET e == IF g.free_edge # <<>> THEN Head(g.free_edge) ELSE Len(g.edges)
        weight == [from |-> a, to |-> b, flow |-> flow]
        linked == [g EXCEPT !.out[a + 1] = <<e>> \o @]
    IN [graph |-> [linked EXCEPT
                     !.edges = IF g.free_edge # <<>> THEN [@ EXCEPT ![e + 1] = weight]
                                                     ELSE Append(@, weight),
                     !.free_edge = IF g.free_edge # <<>> THEN Tail(@) ELSE @,
                     !.inc[b + 1] = <<e>> \o @],
        index |-> e]

\* StableGraph::remove_edge
remove_edge(g, e) ==
    LET unlinked == [g EXCEPT !.out[g.edges[e + 1].from + 1] = Without(@, e)]
    IN [unlinked EXCEPT !.inc[g.edges[e + 1].to + 1] = Without(@, e),
                        !.edges[e + 1] = VacantEdge,
                        !.free_edge = <<e>> \o @]

\* StableGraph::remove_node: the outgoing, then the incoming edges of the node
\* are removed, then the node
RECURSIVE remove_node(_, _)
remove_node(g, a) ==
    IF g.out[a + 1] # <<>> THEN remove_node(remove_edge(g, Head(g.out[a + 1])), a)
    ELSE IF g.inc[a + 1] # <<>> THEN remove_node(remove_edge(g, Head(g.inc[a + 1])), a)
    ELSE [g EXCEPT !.nodes[a + 1] = VacantNode, !.free_node = <<a>> \o @]

\* StableGraph::neighbors_directed(node, Outgoing): targets of the outgoing
\* edges, the edge added last first
neighbors(g, node) == [i \in 1..Len(g.out[node + 1]) |-> g.edges[g.out[node + 1][i] + 1].to]

\* StableGraph::find_edge: the first outgoing edge of a with target b, or -1
find_edge(g, a, b) ==
    LET found == SelectSeq(g.out[a + 1], LAMBDA e : g.edges[e + 1].to = b)
    IN IF found = <<>> THEN -1 ELSE Head(found)

\* is_cyclic_util; visited and rec_stack are vectors of node_count() booleans,
\* given by the set of indices that hold true; indexing them at or beyond
\* node_count() panics
RECURSIVE is_cyclic_util(_, _, _, _), visit_neighbors(_, _, _, _, _)
is_cyclic_util(g, node, visited, rec_stack) ==
    IF node >= node_count(g)
      THEN [result |-> "panic", visited |-> visited, rec_stack |-> rec_stack]
      ELSE visit_neighbors(g, node, neighbors(g, node),
                           visited \cup {node}, rec_stack \cup {node})
visit_neighbors(g, node, rest, visited, rec_stack) ==
    IF rest = <<>>
      THEN [result |-> "false", visited |-> visited, rec_stack |-> rec_stack \ {node}]
    ELSE IF Head(rest) >= node_count(g)
      THEN [result |-> "panic", visited |-> visited, rec_stack |-> rec_stack]
    ELSE IF Head(rest) \notin visited
      THEN LET below == is_cyclic_util(g, Head(rest), visited, rec_stack)
           IN IF below.result # "false" THEN below
              ELSE visit_neighbors(g, node, Tail(rest), below.visited, below.rec_stack)
    ELSE IF Head(rest) \in rec_stack
      THEN [result |-> "true", visited |-> visited, rec_stack |-> rec_stack]
    ELSE visit_neighbors(g, node, Tail(rest), visited, rec_stack)

\* has_cycle: "true", "false" or "panic"
RECURSIVE has_cycle_from(_, _, _, _)
has_cycle_from(g, node, visited, rec_stack) ==
    IF node >= Len(g.nodes) THEN "false"
    ELSE IF g.nodes[node + 1] = VacantNode
      THEN has_cycle_from(g, node + 1, visited, rec_stack)
    ELSE IF node >= node_count(g) THEN "panic"
    ELSE IF node \in visited THEN has_cycle_from(g, node + 1, visited, rec_stack)
    ELSE LET below == is_cyclic_util(g, node, visited, rec_stack)
         IN IF below.result # "false" THEN below.result
            ELSE has_cycle_from(g, node + 1, below.visited, below.rec_stack)
has_cycle(g) == has_cycle_from(g, 0, {}, {})

Call(op, from, to, kind, index) ==
    [op |-> op, from |-> from, to |-> to, kind |-> kind, index |-> index]

InitGraph ==
    /\ graph_agents = {}
    /\ workflow = EmptyGraph
    /\ name_to_node = <<>>
    /\ last_call = Call("new", "", "", "Ok", -1)

\* an AgentRearrange that is not used
IdleGraph == InitGraph

\* a panic ends the program
Alive == last_call.kind # "Panic"

\* register_agent
register_agent(name) ==
    /\ Alive
    /\ graph_agents' = graph_agents \cup {name}
    /\ IF name \notin DOMAIN name_to_node
         THEN LET added == add_node(workflow, name) IN
                /\ workflow' = added.graph
                /\ name_to_node' = name_to_node @@ (name :> added.index)
         ELSE UNCHANGED <<workflow, name_to_node>>
    /\ last_call' = Call("register_agent", name, "", "Ok", -1)

\* connect_agents, lines 77-91: entry(name).or_insert_with(add_node)
NodeOf(state, name) ==
    IF name \in DOMAIN state.name_to_node
      THEN state
      ELSE LET added == add_node(state.workflow, name) IN
             [workflow |-> added.graph,
              name_to_node |-> state.name_to_node @@ (name :> added.index)]

\* connect_agents
connect_agents(from, to, flow) ==
    /\ Alive
    /\ edge_count(workflow) < MaxEdges
    /\ IF from \notin graph_agents \/ to \notin graph_agents
         THEN /\ last_call' = Call("connect_agents", from, to, "AgentNotFound", -1)
              /\ UNCHANGED <<workflow, name_to_node>>
         ELSE LET with_from == NodeOf([workflow |-> workflow, name_to_node |-> name_to_node], from)
                  with_to == NodeOf(with_from, to)
                  added == add_edge(with_to.workflow, with_to.name_to_node[from],
                                    with_to.name_to_node[to], flow)
                  cyclic == has_cycle(added.graph)
              IN /\ name_to_node' = with_to.name_to_node
                 /\ CASE cyclic = "true" ->
                           /\ workflow' = remove_edge(added.graph, added.index)
                           /\ last_call' = Call("connect_agents", from, to, "CycleDetected", -1)
                      [] cyclic = "false" ->
                           /\ workflow' = added.graph
                           /\ last_call' = Call("connect_agents", from, to, "Ok", added.index)
                      [] OTHER ->
                           /\ workflow' = added.graph
                           /\ last_call' = Call("connect_agents", from, to, "Panic", -1)
    /\ UNCHANGED graph_agents

\* disconnect_agents
disconnect_agents(from, to) ==
    /\ Alive
    /\ IF from \notin DOMAIN name_to_node \/ to \notin DOMAIN name_to_node
         THEN /\ last_call' = Call("disconnect_agents", from, to, "AgentNotFound", -1)
              /\ UNCHANGED workflow
         ELSE LET edge == find_edge(workflow, name_to_node[from], name_to_node[to]) IN
              IF edge # -1
                THEN /\ workflow' = remove_edge(workflow, edge)
                     /\ last_call' = Call("disconnect_agents", from, to, "Ok", -1)
                ELSE /\ last_call' = Call("disconnect_agents", from, to, "AgentNotFound", -1)
                     /\ UNCHANGED workflow
    /\ UNCHANGED <<graph_agents, name_to_node>>

\* remove_agent
remove_agent(name) ==
    /\ Alive
    /\ IF name \in DOMAIN name_to_node
         THEN /\ workflow' = remove_node(workflow, name_to_node[name])
              /\ name_to_node' = [n \in DOMAIN name_to_node \ {name} |-> name_to_node[n]]
              /\ graph_agents' = graph_agents \ {name}
              /\ last_call' = Call("remove_agent", name, "", "Ok", -1)
         ELSE /\ last_call' = Call("remove_agent", name, "", "AgentNotFound", -1)
              /\ UNCHANGED <<graph_agents, workflow, name_to_node>>

GraphStep ==
    \/ \E name \in GraphAgentNames : register_agent(name)
    \/ \E from, to \in GraphAgentNames : \E flow \in Flows : connect_agents(from, to, flow)
    \/ \E from, to \in GraphAgentNames : disconnect_agents(from, to)
    \/ \E name \in GraphAgentNames : remove_agent(name)


(***************************************************************************)
(* AgentRearrange::execute_workflow                                        *)
(***************************************************************************)
\* texts are sequences of words
WorkflowInput == <<"question">>
AgentOutputs == {<<"hi">>, <<"a", "longer", "answer">>}
LongerThan == 2

\* the condition and the transform of the example flow: the output is longer
\* than a threshold; the output is prefixed with a request
should_flow(flow, output) == flow.condition = "none" \/ Len(output) > LongerThan
next_input(flow, output) ==
    IF flow.transform = "none" THEN output ELSE <<"Summary request:">> \o output

NoRun == [kind |-> "None", value |-> <<>>]
AgentError == [kind |-> "AgentError", value |-> <<>>]
NotFound == [kind |-> "AgentNotFound", value |-> <<>>]

\* execute_agent: the result of running the agent of this name
AgentResults(name) ==
    IF name \in graph_agents
      THEN {[kind |-> "Ok", value |-> o] : o \in AgentOutputs} \cup {AgentError}
      ELSE {NotFound}

\* StableGraph::edges_directed(node, Outgoing): target and weight of the
\* outgoing edges, the edge added last first
edges_directed(g, node) ==
    [i \in 1..Len(g.out[node + 1]) |->
       [target |-> g.edges[g.out[node + 1][i] + 1].to,
        flow |-> g.edges[g.out[node + 1][i] + 1].flow]]

\* a call of execute_node: awaiting its agent, or (output known) in the loop
\* over edges_to_process
Frame(node, input) ==
    [node |-> node, input |-> input, output |-> <<>>, edges |-> <<>>]

\* execute_node, lines 260-275, after the agent of the innermost call
\* succeeded: the loop over the edges runs until the next agent is awaited;
\* a call whose edges are exhausted returns Ok to its caller, which continues
\* its own loop.  The stack of calls at the next await, empty if none is left.
RECURSIVE propagate(_)
propagate(calls) ==
    IF calls = <<>> THEN <<>>
    ELSE LET top == calls[Len(calls)]
             below == SubSeq(calls, 1, Len(calls) - 1)
         IN IF top.edges = <<>> THEN propagate(below)
            ELSE LET edge == Head(top.edges)
                     rest == Append(below, [top EXCEPT !.edges = Tail(@)])
                 IN IF should_flow(edge.flow, top.output)
                      THEN Append(rest, Frame(edge.target, next_input(edge.flow, top.output)))
                      ELSE propagate(rest)

NoReturn == [kind |-> "none", results |-> <<>>]

\* no call of execute_workflow was made
IdleExecute ==
    /\ exec_pc = "idle"
    /\ stack = <<>>
    /\ node_results = <<>>
    /\ exec_results = <<>>
    /\ exec_return = NoReturn
    /\ exec_log = <<>>

\* execute_workflow, lines 198-222, up to the first await
execute_workflow(start_agent, input) ==
    /\ exec_pc = "idle"
    /\ Alive
    /\ IF start_agent \notin DOMAIN name_to_node
         THEN /\ exec_return' = [kind |-> "AgentNotFound", results |-> <<>>]
              /\ exec_pc' = "done"
              /\ UNCHANGED <<stack, node_results, exec_results>>
         ELSE /\ node_results' = [i \in node_indices(workflow) |-> NoRun]
              /\ exec_results' = <<>>
              /\ stack' = <<Frame(name_to_node[start_agent], input)>>
              /\ exec_pc' = "running"
              /\ UNCHANGED exec_return
    /\ UNCHANGED exec_log

\* execute_node, lines 241-278: the agent of the innermost call returns; its
\* result is stored; on success the edges are followed up to the next await,
\* on failure the error is returned through every caller (line 272, line 222)
execute_node ==
    /\ exec_pc = "running"
    /\ LET top == stack[Len(stack)]
           agent_name == workflow.nodes[top.node + 1]
       IN \E outcome \in AgentResults(agent_name) :
            /\ exec_results' = MapInsert(exec_results, agent_name, outcome)
            /\ node_results' = [node_results EXCEPT ![top.node] = outcome]
            /\ exec_log' = Append(exec_log, [name |-> agent_name, node |-> top.node,
                                             input |-> top.input, result |-> outcome])
            /\ IF outcome.kind = "Ok"
                 THEN LET calls == propagate(
                            Append(SubSeq(stack, 1, Len(stack) - 1),
                                   [top EXCEPT !.output = outcome.value,
                                               !.edges = edges_directed(workflow, top.node)]))
                      IN /\ stack' = calls
                         /\ IF calls = <<>>
                              THEN /\ exec_pc' = "done"
                                   /\ exec_return' = [kind |-> "Ok", results |-> exec_results']
                              ELSE UNCHANGED <<exec_pc, exec_return>>
                 ELSE /\ stack' = <<>>
                      /\ exec_pc' = "done"
                      /\ exec_return' = [kind |-> outcome.kind, results |-> <<>>]

RECURSIVE Registered(_)
Registered(n) ==
    IF n = 0 THEN [workflow |-> EmptyGraph, name_to_node |-> <<>>]
    ELSE LET names == <<"a", "b", "c">>
             before == Registered(n - 1)
             added == add_node(before.workflow, names[n])
         IN [workflow |-> added.graph,
             name_to_node |-> before.name_to_node @@ (names[n] :> added.index)]

\* the edges given to connect_agents, in the order of the calls
Connections(n) ==
    UNION {[1..k -> [from : 0..(n - 1), to : 0..(n - 1), flow : Flows]] : k \in 0..MaxEdges}
RECURSIVE Connected(_, _)
Connected(g, edges) ==
    IF edges = <<>> THEN g
    ELSE Connected(add_edge(g, Head(edges).from, Head(edges).to, Head(edges).flow).graph,
                   Tail(edges))

\* an AgentRearrange on which agents were registered and then connected by
\* calls that all returned Ok
InitExecute ==
    /\ \E n \in 1..3 : \E edges \in Connections(n) :
         LET built == Connected(Registered(n).workflow, edges) IN
           /\ has_cycle(built) = "false"
           /\ workflow = built
           /\ name_to_node = Registered(n).name_to_node
           /\ graph_agents = DOMAIN Registered(n).name_to_node
           /\ last_call = IF edges = <<>>
                            THEN Call("register_agent", <<"a", "b", "c">>[n], "", "Ok", -1)
                            ELSE LET last == edges[Len(edges)] IN
                                 Call("connect_agents", built.nodes[last.from + 1],
                                      built.nodes[last.to + 1], "Ok", Len(edges) - 1)
    /\ IdleExecute

ExecuteStep ==
    \/ \E start_agent \in GraphAgentNames : execute_workflow(start_agent, WorkflowInput)
    \/ execute_node


(***************************************************************************)
(* The persistence primitive: save_state                                   *)
(***************************************************************************)
Saves == 1..MaxSaves
Paths == {"target", "tmp", "bak"}

\* lines 309-311: path, backup_path and temp_path
path == "target"
backup_path == "bak"
temp_path_in_place == "target"
temp_path == "tmp"

\* file contents are sequences of bytes
NoFile == <<"ENOENT">>
OldContents == <<"o1", "o2">>
Payload(s) == <<"json", s>>
\* fs::write creates or truncates the file, then writes the bytes: the file
\* is observable empty and partly written
Partial(bytes) == {SubSeq(bytes, 1, n) : n \in 0..(Len(bytes) - 1)}

\* no call of save was made
IdleSave ==
    /\ parent_exists = TRUE
    /\ fs = [p \in Paths |-> NoFile]
    /\ save_pc = [s \in Saves |-> "idle"]
    /\ save_result = [s \in Saves |-> "none"]
    /\ pre_call = [s \in Saves |-> NoFile]
    /\ overlapped = FALSE

\* the directory is missing, or holds a target and whatever an earlier,
\* interrupted save left behind
InitSave ==
    /\ parent_exists \in BOOLEAN
    /\ fs \in [Paths -> {NoFile, OldContents}]
    /\ ~parent_exists => fs = [p \in Paths |-> NoFile]
    /\ save_pc = [s \in Saves |-> "idle"]
    /\ save_result = [s \in Saves |-> "none"]
    /\ pre_call = [s \in Saves |-> NoFile]
    /\ overlapped = FALSE

Running(s) == save_pc[s] \notin {"idle", "returned"}

Returns(s, value) ==
    /\ save_pc' = [save_pc EXCEPT ![s] = "returned"]
    /\ save_result' = [save_result EXCEPT ![s] = value]

Goes(s, position) ==
    /\ save_pc' = [save_pc EXCEPT ![s] = position]
    /\ UNCHANGED save_result

\* save_state is called, lines 302-311
SaveCall(s) ==
    /\ save_pc[s] = "idle"
    /\ \A earlier \in Saves : earlier < s => save_pc[earlier] # "idle"
    /\ pre_call' = [pre_call EXCEPT ![s] = fs[path]]
    /\ overlapped' = (overlapped \/ \E other \in Saves : Running(other))
    /\ Goes(s, "create_dir")
    /\ UNCHANGED <<parent_exists, fs>>

\* lines 314-318: create_dir_all if the parent does not exist
CreateDir(s) ==
    /\ save_pc[s] = "create_dir"
    /\ IF parent_exists
         THEN Goes(s, "serialize") /\ UNCHANGED parent_exists
         ELSE \/ parent_exists' = TRUE /\ Goes(s, "serialize")
              \/ UNCHANGED parent_exists /\ Returns(s, "IoError")
    /\ UNCHANGED <<fs, pre_call, overlapped>>

\* lines 321-322: serialize, then fs::write creates or truncates the
\* temporary file
OpenTmp(s) ==
    /\ save_pc[s] = "serialize"
    /\ \/ Returns(s, "JsonError") /\ UNCHANGED fs
       \/ Returns(s, "IoError") /\ UNCHANGED fs
       \/ /\ fs' = [fs EXCEPT ![temp_path] = <<>>]
          /\ Goes(s, "write")
    /\ UNCHANGED <<parent_exists, pre_call, overlapped>>

\* line 322: fs::write writes the bytes, or fails after a part of them
WriteTmp(s) ==
    /\ save_pc[s] = "write"
    /\ \/ /\ fs' = [fs EXCEPT ![temp_path] = IF @ = NoFile THEN @ ELSE Payload(s)]
          /\ Goes(s, "exists")
       \/ \E part \in Partial(Payload(s)) :
            /\ fs' = [fs EXCEPT ![temp_path] = IF @ = NoFile THEN @ ELSE part]
            /\ Returns(s, "IoError")
    /\ UNCHANGED <<parent_exists, pre_call, overlapped>>

\* line 325: path.exists()
TargetExists(s) ==
    /\ save_pc[s] = "exists"
    /\ Goes(s, IF fs[path] # NoFile THEN "copy" ELSE "rename")
    /\ UNCHANGED <<parent_exists, fs, pre_call, overlapped>>

\* line 326: fs::copy(path, backup_path)
CopyToBak(s) ==
    /\ save_pc[s] = "copy"
    /\ \/ /\ fs[path] # NoFile
          /\ fs' = [fs EXCEPT ![backup_path] = fs[path]]
          /\ Goes(s, "rename")
       \/ /\ fs[path] # NoFile
          /\ fs' = [fs EXCEPT ![backup_path] = <<>>]
          /\ Returns(s, "IoError")
       \/ /\ UNCHANGED fs
          /\ Returns(s, "IoError")
    /\ UNCHANGED <<parent_exists, pre_call, overlapped>>

\* the io::Error of an operation on a file: the file is missing, or the
\* operation fails for another reason
IoErrorOn(file) == IF fs[file] = NoFile THEN "IoError: NotFound" ELSE "IoError"

\* line 330: fs::rename(temp_path, path) replaces the target in one step
RenameTmp(s) ==
    /\ save_pc[s] = "rename"
    /\ \/ /\ fs[temp_path] # NoFile
          /\ fs' = [fs EXCEPT ![path] = fs[temp_path], ![temp_path] = NoFile]
          /\ Goes(s, "bak_exists")
       \/ /\ UNCHANGED fs
          /\ Returns(s, IoErrorOn(temp_path))
    /\ UNCHANGED <<parent_exists, pre_call, overlapped>>

\* line 333: backup_path.exists()
BakExists_never(s) ==
    /\ save_pc[s] = "bak_exists"
    /\ Returns(s, "Ok")
    /\ UNCHANGED <<parent_exists, fs, pre_call, overlapped>>
BakExists(s) ==
    /\ save_pc[s] = "bak_exists"
    /\ IF fs[backup_path] # NoFile THEN Goes(s, "remove") ELSE Returns(s, "Ok")
    /\ UNCHANGED <<parent_exists, fs, pre_call, overlapped>>

\* lines 334-337: fs::remove_file(backup_path), then Ok(())
RemoveBak(s) ==
    /\ save_pc[s] = "remove"
    /\ \/ /\ fs[backup_path] # NoFile
          /\ fs' = [fs EXCEPT ![backup_path] = NoFile]
          /\ Returns(s, "Ok")
       \/ /\ UNCHANGED fs
          /\ Returns(s, IoErrorOn(backup_path))
    /\ UNCHANGED <<parent_exists, pre_call, overlapped>>

SaveStep ==
    \/ \E s \in Saves : SaveCall(s)
    \/ \E s \in Saves : CreateDir(s)
    \/ \E s \in Saves : OpenTmp(s)
    \/ \E s \in Saves : WriteTmp(s)
    \/ \E s \in Saves : TargetExists(s)
    \/ \E s \in Saves : CopyToBak(s)
    \/ \E s \in Saves : RenameTmp(s)
    \/ \E s \in Saves : BakExists(s)
    \/ \E s \in Saves : RemoveBak(s)

(***************************************************************************)
(* MultiAgentOrchestrator                                                  *)
(***************************************************************************)
WorkerNames == {"", "A1", "A2"}
Descriptions == {"", "d"}
OrchTasks == {"t1", "t2"}
BossName == "boss"
WorkerOutputs == {"done", "more"}
OrchRuns == 1..MaxRuns

\* Option<T>
None == <<>>
Some(x) == <<x>>

\* Vec<Box<dyn Agent>>: what new is given; the position of a worker stands
\* for its id
Rosters ==
    UNION {[1..n -> [name : WorkerNames, description : Descriptions]]
             : n \in 0..MaxWorkers}

\* the texts a boss can answer with: no JSON at all, or a JSON object with
\* some of the fields of SelectAgentResponse
BossReplies ==
    {[text |-> "garbage", fields |-> [reasoning |-> "r"]]}
      \cup {[text |-> "object", fields |-> f] :
              f \in [selected_agent : {"A1", "A2", "A3"}, reasoning : {"r"}]
                      \cup [selected_agent : {"A1"}, reasoning : {"r"},
                            modified_task : {"m"}]
                      \cup [selected_agent : {"A1"}]}

\* boss.run(task): an AgentError or the text of the reply
BossOutcomes ==
    {[kind |-> "Err", value |-> NoValue]}
      \cup {[kind |-> "Ok", value |-> reply] : reply \in BossReplies}

\* selected_agent.run(final_task)
WorkerOutcomes ==
    {[kind |-> "Err", value |-> NoValue]}
      \cup {[kind |-> "Ok", value |-> output] : output \in WorkerOutputs}

\* serde_json::from_str::<SelectAgentResponse>: selected_agent and reasoning
\* are required, modified_task is an Option
from_str(str) ==
    IF /\ str.text = "object"
       /\ {"selected_agent", "reasoning"} \subseteq DOMAIN str.fields
      THEN [kind |-> "Ok",
            value |-> [selected_agent |-> str.fields.selected_agent,
                       reasoning |-> str.fields.reasoning,
                       modified_task |->
                           IF "modified_task" \in DOMAIN str.fields
                             THEN Some(str.fields.modified_task) ELSE None]]
      ELSE [kind |-> "Err", value |-> NoValue]

\* create_boss_system_prompt, lines 203-208: the test for an empty name or
\* description
HasEmpty_name_only(roster) ==
    \E i \in DOMAIN roster : roster[i].name = ""
HasEmpty(roster) ==
    \E i \in DOMAIN roster : roster[i].name = "" \/ roster[i].description = ""

\* create_boss_system_prompt, lines 211-218: the positions whose name was
\* inserted before
Repeated(roster) ==
    {i \in DOMAIN roster : \E j \in 1..(i - 1) : roster[j].name = roster[i].name}

\* create_boss_system_prompt
create_boss_system_prompt(roster) ==
    IF HasEmpty(roster)
      THEN [kind |-> "NameOrDescriptionNotFound", value |-> NoValue]
      ELSE IF Repeated(roster) # {}
             THEN LET first == CHOOSE i \in Repeated(roster) :
                                  \A j \in Repeated(roster) : i <= j
                  IN [kind |-> "DuplicateAgentName", value |-> roster[first].name]
             ELSE [kind |-> "Ok",
                   value |-> [i \in DOMAIN roster |->
                                <<"- ", roster[i].name, ": ", roster[i].description>>]]

\* find_agent_by_name: the first worker with the name, as Option of its position
find_agent_by_name_or_first(agent_name) ==
    LET found == {i \in DOMAIN orch_agents : orch_agents[i].name = agent_name}
    IN IF found = {} THEN (IF orch_agents = <<>> THEN None ELSE Some(1))
       ELSE Some(CHOOSE i \in found : \A j \in found : i <= j)
find_agent_by_name(agent_name) ==
    LET found == {i \in DOMAIN orch_agents : orch_agents[i].name = agent_name}
    IN IF found = {} THEN None
       ELSE Some(CHOOSE i \in found : \A j \in found : i <= j)

NotBuilt == [kind |-> "unbuilt", value |-> NoValue]
NoOutcome == [kind |-> "none", value |-> NoValue]
NoLocals == [task |-> "", boss_response_str |-> NoOutcome, boss_response |-> NoValue,
             selected_agent |-> 0, final_task |-> ""]

\* no call of run_batch was made
NoBatch == [pc |-> "idle", tasks |-> <<>>, chan |-> <<>>, results |-> <<>>,
            returned |-> NoOutcome]

\* Vec<String>: the task lists given to run_batch; "t2" names the second
\* task that is used
BatchLists ==
    {l \in UNION {[1..n -> OrchTasks] : n \in 0..MaxBatchTasks} :
       \A i \in DOMAIN l : l[i] = "t2" => \E j \in 1..(i - 1) : l[j] = "t1"}

IdleOrchestrator ==
    /\ orch_agents = <<>>
    /\ enable_execute_task = FALSE
    /\ orch_new = NotBuilt
    /\ router_conversation = <<>>
    /\ orch_pc = [r \in OrchRuns |-> "idle"]
    /\ orch_local = [r \in OrchRuns |-> NoLocals]
    /\ orch_result = [r \in OrchRuns |-> NoOutcome]
    /\ worker_runs = [r \in OrchRuns |-> <<>>]
    /\ orch_batch = NoBatch

InitOrchestrator ==
    /\ orch_agents \in Rosters
    /\ enable_execute_task \in BOOLEAN
    /\ orch_new = NotBuilt
    /\ router_conversation = <<>>
    /\ orch_pc = [r \in OrchRuns |-> "idle"]
    /\ orch_local = [r \in OrchRuns |-> NoLocals]
    /\ orch_result = [r \in OrchRuns |-> NoOutcome]
    /\ worker_runs = [r \in OrchRuns |-> <<>>]
    /\ orch_batch = NoBatch

\* MultiAgentOrchestrator::new
orchestrator_new ==
    /\ orch_new = NotBuilt
    /\ orch_new' = create_boss_system_prompt(orch_agents)
    /\ UNCHANGED <<orch_agents, enable_execute_task, router_conversation, orch_pc,
                   orch_local, orch_result, worker_runs, orch_batch>>

\* run returns; in run_batch, lines 166-178: the result of a successful run
\* is sent into the channel with its task (the capacity of the channel is the
\* number of tasks, the send never waits), an error is logged
OrchReturns(r, kind, value) ==
    /\ orch_pc' = [orch_pc EXCEPT ![r] = "returned"]
    /\ orch_result' = [orch_result EXCEPT ![r] = [kind |-> kind, value |-> value]]
    /\ orch_batch' =
          IF orch_batch.pc = "fanout" /\ kind = "Ok"
            THEN [orch_batch EXCEPT !.chan = Append(@, <<orch_local[r].task, value>>)]
            ELSE orch_batch

\* run, lines 124-151: the result (id, timestamp and the times left out)
OrchestratorResult(original, final_task, selected, boss_response, agent_response) ==
    [task |-> [original |-> original,
               modified |-> IF original # final_task THEN Some(final_task) ELSE None],
     boss_decision |-> [selected_agent |-> orch_agents[selected].name,
                        reasoning |-> boss_response.reasoning],
     execution |-> [agent_id |-> selected,
                    agent_name |-> orch_agents[selected].name,
                    was_executed |-> enable_execute_task,
                    response |-> agent_response,
                    execution_time |-> IF enable_execute_task THEN Some("seconds")
                                       ELSE None]]

\* run, lines 72-82: up to the await of boss.run; run takes &self, so that a
\* call can start while another one is waiting.  Calls are numbered in the
\* order they are made and "t2" names the second task that is used.
orchestrator_run(r, original) ==
    /\ orch_new.kind = "Ok"
    /\ orch_pc[r] = "idle"
    /\ \A q \in 1..(r - 1) : orch_pc[q] # "idle"
    /\ original = "t2" => \E q \in 1..(r - 1) : orch_local[q].task = "t1"
    /\ \/ orch_batch.pc = "idle"
       \/ /\ orch_batch.pc = "fanout"
          /\ r \in DOMAIN orch_batch.tasks
          /\ original = orch_batch.tasks[r]
    /\ router_conversation' = MemAdd(router_conversation, original, "User", "User", original)
    /\ orch_local' = [orch_local EXCEPT ![r].task = original]
    /\ orch_pc' = [orch_pc EXCEPT ![r] = "boss"]
    /\ UNCHANGED <<orch_agents, enable_execute_task, orch_new, orch_result, worker_runs,
                   orch_batch>>

\* run, line 100: boss_response.modified_task.unwrap_or(task.clone())
FinalTask_original(boss_response, original) == original
FinalTask(boss_response, original) ==
    IF boss_response.modified_task = None THEN original
    ELSE boss_response.modified_task[1]

\* run, lines 105-108: the flag that decides whether the worker is run
ExecutesTask_always == TRUE
ExecutesTask == enable_execute_task

\* run, lines 82-108 (and 120-151 without execution): boss.run returns
boss_returns(r) ==
    /\ orch_pc[r] = "boss"
    /\ \E o \in BossOutcomes :
         LET original == orch_local[r].task
             parsed == IF o.kind = "Ok" THEN from_str(o.value) ELSE o
             boss_response == parsed.value
             selected == find_agent_by_name(boss_response.selected_agent)
             final_task == FinalTask(boss_response, original)
         IN CASE o.kind = "Err" ->
                   /\ OrchReturns(r, "AgentError", NoValue)
                   /\ orch_local' = [orch_local EXCEPT ![r].boss_response_str = o]
                   /\ UNCHANGED <<router_conversation, worker_runs>>
              [] o.kind = "Ok" /\ parsed.kind = "Err" ->
                   /\ OrchReturns(r, "JsonError", NoValue)
                   /\ orch_local' = [orch_local EXCEPT ![r].boss_response_str = o]
                   /\ UNCHANGED <<router_conversation, worker_runs>>
              [] OTHER ->
                   /\ router_conversation' =
                        MemAdd(router_conversation, original, "Assistant", BossName, o.value)
                   /\ IF selected = None
                        THEN /\ OrchReturns(r, "AgentNotFound", NoValue)
                             /\ orch_local' =
                                  [orch_local EXCEPT ![r].boss_response_str = o,
                                                     ![r].boss_response = boss_response]
                             /\ UNCHANGED worker_runs
                        ELSE /\ orch_local' =
                                  [orch_local EXCEPT ![r].boss_response_str = o,
                                                     ![r].final_task = final_task,
                                                     ![r].selected_agent = selected[1],
                                                     ![r].boss_response = boss_response]
                             /\ IF ExecutesTask
                                  THEN /\ worker_runs' =
                                            [worker_runs EXCEPT ![r] =
                                               Append(@, [run |-> r, agent |-> selected[1],
                                                          task |-> final_task])]
                                       /\ orch_pc' = [orch_pc EXCEPT ![r] = "worker"]
                                       /\ UNCHANGED <<orch_result, orch_batch>>
                                  ELSE /\ OrchReturns(r, "Ok",
                                            OrchestratorResult(original, final_task, selected[1],
                                                               boss_response, None))
                                       /\ UNCHANGED worker_runs
    /\ UNCHANGED <<orch_agents, enable_execute_task, orch_new>>

\* run, lines 108-151: the selected worker returns
worker_returns(r) ==
    /\ orch_pc[r] = "worker"
    /\ \E o \in WorkerOutcomes :
         LET l == orch_local[r]
         IN IF o.kind = "Err"
              THEN /\ OrchReturns(r, "AgentError", NoValue)
                   /\ UNCHANGED router_conversation
              ELSE /\ router_conversation' =
                        MemAdd(router_conversation, l.task, "Assistant",
                               orch_agents[l.selected_agent].name, o.value)
                   /\ OrchReturns(r, "Ok",
                        OrchestratorResult(l.task, l.final_task, l.selected_agent,
                                           l.boss_response, Some(o.value)))
    /\ UNCHANGED <<orch_agents, enable_execute_task, orch_new, orch_local, worker_runs>>

\* DashMap::insert of the pairs of the channel, in the order they were sent
RECURSIVE InsertAll(_, _)
InsertAll(map, pairs) ==
    IF pairs = <<>> THEN map
    ELSE LET key == Head(pairs)[1]
             rest == [k \in DOMAIN map \ {key} |-> map[k]]
         IN InsertAll(rest @@ (key :> Head(pairs)[2]), Tail(pairs))

\* run_batch, line 160: tokio's mpsc::channel panics when the capacity is 0
ChannelPanics_never(capacity) == FALSE
ChannelPanics(capacity) == capacity = 0

\* run_batch, lines 154-162: the channel is made and for_each_concurrent
\* takes the tasks, starting their runs in the order of the list
run_batch(batch_tasks_given) ==
    /\ orch_new.kind = "Ok"
    /\ orch_batch.pc = "idle"
    /\ \A r \in OrchRuns : orch_pc[r] = "idle"
    /\ orch_batch' =
          IF ChannelPanics(Len(batch_tasks_given))
            THEN [orch_batch EXCEPT !.pc = "returned",
                                    !.tasks = batch_tasks_given,
                                    !.returned = [kind |-> "Panic", value |-> NoValue]]
            ELSE [orch_batch EXCEPT !.pc = "fanout", !.tasks = batch_tasks_given]
    /\ UNCHANGED <<orch_agents, enable_execute_task, orch_new, router_conversation,
                   orch_pc, orch_local, orch_result, worker_runs>>

\* run_batch, lines 181-188: every run has completed; the sender is dropped
\* and the channel is drained into the map
run_batch_returns ==
    /\ orch_batch.pc = "fanout"
    /\ \A r \in DOMAIN orch_batch.tasks : orch_pc[r] = "returned"
    /\ orch_batch' =
          LET map == InsertAll(<<>>, orch_batch.chan)
          IN [orch_batch EXCEPT !.pc = "returned",
                                !.chan = <<>>,
                                !.results = map,
                                !.returned = [kind |-> "Ok", value |-> map]]
    /\ UNCHANGED <<orch_agents, enable_execute_task, orch_new, router_conversation,
                   orch_pc, orch_local, orch_result, worker_runs>>

OrchestratorStep ==
    \/ orchestrator_new
    \/ \E l \in BatchLists : run_batch(l)
    \/ run_batch_returns
    \/ \E r \in OrchRuns, original \in OrchTasks : orchestrator_run(r, original)
    \/ \E r \in OrchRuns : boss_returns(r)
    \/ \E r \in OrchRuns : worker_returns(r)

(***************************************************************************)
(* AgentShortMemory: concurrent calls of add                               *)
(***************************************************************************)
AddCalls == 1..MaxAdds
MemTasks == {"t1", "t2"}
Authors == {"A1", "A2"}

\* AgentConversation::add, lines 43-47: the message of add call a, its content
\* being the text given by the caller behind the time of the call
AddedMessage(a, author) ==
    Message("Assistant", author, <<"Time: ", "now", " \n">> \o <<"content", a>>)

NoAdd == [task |-> "", message |-> NoValue, len |-> 0]

IdleMemory ==
    /\ shared_memory = <<>>
    /\ mem_lock = [t \in MemTasks |-> 0]
    /\ add_pc = [a \in AddCalls |-> "idle"]
    /\ add_local = [a \in AddCalls |-> NoAdd]
    /\ took_effect = <<>>

InitMemory == IdleMemory

\* add is called by an agent or by the workflow; "t2" names the second task
\* that is used
add_called(a, t, author) ==
    /\ add_pc[a] = "idle"
    /\ \A b \in 1..(a - 1) : add_pc[b] # "idle"
    /\ t = "t2" => \E b \in 1..(a - 1) : add_local[b].task = "t1"
    /\ add_pc' = [add_pc EXCEPT ![a] = "entry"]
    /\ add_local' = [add_local EXCEPT ![a] = [task |-> t,
                                              message |-> AddedMessage(a, author),
                                              len |-> 0]]
    /\ UNCHANGED <<shared_memory, mem_lock, took_effect>>

\* the sequence of task t is locked by no call
Unlocked_always(t) == TRUE
Unlocked(t) == mem_lock[t] = 0

\* add: the entry of the task is taken, which creates an empty conversation
\* when the key is new, and locks the sequence of the task
add_entry(a) ==
    /\ add_pc[a] = "entry"
    /\ Unlocked(add_local[a].task)
    /\ LET t == add_local[a].task
       IN /\ shared_memory' = IF t \in DOMAIN shared_memory THEN shared_memory ELSE shared_memory @@ (t :> <<>>)
          /\ mem_lock' = [mem_lock EXCEPT ![t] = a]
    /\ add_pc' = [add_pc EXCEPT ![a] = "push"]
    /\ UNCHANGED <<add_local, took_effect>>

\* AgentConversation::add, line 48, Vec::push: the message is written at the
\* position behind the length that was read, which becomes the new end
Pushed_front(history, len, message) == <<message>> \o SubSeq(history, 1, len)
Pushed(history, len, message) == SubSeq(history, 1, len) \o <<message>>

\* AgentConversation::add, line 48, Vec::push: the length is read
push_reads_len(a) ==
    /\ add_pc[a] = "push"
    /\ add_local' = [add_local EXCEPT ![a].len = Len(shared_memory[add_local[a].task])]
    /\ add_pc' = [add_pc EXCEPT ![a] = "write"]
    /\ UNCHANGED <<shared_memory, mem_lock, took_effect>>

\* AgentConversation::add, line 48, Vec::push: the message is written behind
\* the last one and the length becomes the length read plus one
push_writes(a) ==
    /\ add_pc[a] = "write"
    /\ LET t == add_local[a].task
       IN /\ shared_memory' =
               [shared_memory EXCEPT ![t] = Pushed(@, add_local[a].len, add_local[a].message)]
          /\ took_effect' = Append(took_effect, a)
    /\ add_pc' = [add_pc EXCEPT ![a] = "unlock"]
    /\ UNCHANGED <<mem_lock, add_local>>

\* add returns: the entry is dropped, which unlocks the sequence of the task
add_returns(a) ==
    /\ add_pc[a] = "unlock"
    /\ mem_lock' = [mem_lock EXCEPT ![add_local[a].task] = IF @ = a THEN 0 ELSE @]
    /\ add_pc' = [add_pc EXCEPT ![a] = "returned"]
    /\ UNCHANGED <<shared_memory, add_local, took_effect>>

MemoryStep ==
    \/ \E a \in AddCalls, t \in MemTasks, author \in Authors : add_called(a, t, author)
    \/ \E a \in AddCalls : add_entry(a)
    \/ \E a \in AddCalls : push_reads_len(a)
    \/ \E a \in AddCalls : push_writes(a)
    \/ \E a \in AddCalls : add_returns(a)

(***************************************************************************)
(* SwarmsAgent                                                             *)
(***************************************************************************)
SwarmsTasks == {<<"t">>, <<"s">>}

\* model.completion(request) and the first choice of the response
CompletionOutcomes ==
    {[kind |-> k, text |-> <<>>] : k \in {"Err", "NoChoice", "ToolCall"}}
      \cup {[kind |-> "Text", text |-> response] : response \in Responses}

NoRunYet == [kind |-> "none", value |-> NoValue]

IdleSwarmsAgent ==
    /\ sw_memory = <<>>
    /\ sw_pc = "idle"
    /\ sw_task = <<>>
    /\ sw_history = <<>>
    /\ sw_result = NoRunYet
    /\ sw_runs = 0

InitSwarmsAgent == IdleSwarmsAgent

\* run, lines 73-83: the task is added as a User message, the conversation
\* of the task is the chat history of the request
swarms_run(t) ==
    /\ sw_pc = "idle"
    /\ sw_runs < MaxSwarmsRuns
    /\ sw_runs' = sw_runs + 1
    /\ sw_task' = t
    /\ sw_memory' = MemAdd(sw_memory, t, "User", UserName, t)
    /\ sw_history' = sw_memory'[t]
    /\ sw_result' = NoRunYet
    /\ sw_pc' = "chat"

\* run, line 85: what is done with the response before it is returned
Responded_appended(memory, t, response) ==
    MemAdd(memory, t, "Assistant", AgentName, response)
Responded(memory, t, response) == memory

\* chat, lines 50-60, and run, lines 83-85
swarms_chat_returns ==
    /\ sw_pc = "chat"
    /\ \E o \in CompletionOutcomes :
         CASE o.kind = "Err" ->
                /\ sw_result' = [kind |-> "Err", value |-> NoValue]
                /\ sw_pc' = "idle"
                /\ UNCHANGED sw_memory
           [] o.kind = "NoChoice" ->
                /\ sw_result' = [kind |-> "NoChoiceFound", value |-> NoValue]
                /\ sw_pc' = "idle"
                /\ UNCHANGED sw_memory
           [] o.kind = "ToolCall" ->
                /\ sw_result' = [kind |-> "Panic", value |-> NoValue]
                /\ sw_pc' = "panicked"
                /\ UNCHANGED sw_memory
           [] OTHER ->
                /\ sw_result' = [kind |-> "Ok", value |-> o.text]
                /\ sw_memory' = Responded(sw_memory, sw_task, o.text)
                /\ sw_pc' = "idle"
    /\ UNCHANGED <<sw_task, sw_history, sw_runs>>

SwarmsAgentStep ==
    \/ \E t \in SwarmsTasks : swarms_run(t)
    \/ swarms_chat_returns

(***************************************************************************)
(* AutoSwarm                                                               *)
(***************************************************************************)
AutoTasks == {"", "t1", "t2"}
AutoNames == {"A1", "A2"}

\* AgentInfo, lines 190-198
AgentInfos ==
    {[agent_name |-> n, agent_description |-> "d", agent_system_prompt |-> "p"] :
        n \in AutoNames}

\* what the boss answers: a text that is no JSON object with a field
\* "agents", an object whose "agents" is an array of strings (the empty array
\* included), an object whose "agents" is a non-empty array of AgentInfo
AutoReplies ==
    {[json |-> "text", names |-> <<>>, infos |-> <<>>]}
      \cup {[json |-> "names", names |-> l, infos |-> <<>>] :
              l \in UNION {[1..n -> AutoNames] : n \in 0..MaxAutoAgents}}
      \cup {[json |-> "infos", names |-> <<>>, infos |-> l] :
              l \in UNION {[1..n -> AgentInfos] : n \in 1..MaxAutoAgents}}

\* boss.run(prompt): SwarmsAgent::run
AutoBossOutcomes ==
    {[kind |-> k, reply |-> [json |-> "text", names |-> <<>>, infos |-> <<>>]] :
        k \in {"Err", "Panic"}}
      \cup {[kind |-> "Ok", reply |-> r] : r \in AutoReplies}

\* ConcurrentWorkflow::run as Swarm::run, concurrent_workflow.rs lines 228-235
SubSwarmOutcomes == {"Ok", "Err"}

\* new, lines 52-53: the maps of existing agents start empty and no
\* operation of AutoSwarm adds to them
existing_agents == {}

\* serde_json::from_str::<SelectAgentsRequest>, line 75
ParsesAsSelect(reply) == reply.json = "names"

\* serde_json::from_str::<CreateAgentsRequest>, line 84
ParsesAsCreate(reply) ==
    \/ reply.json = "infos"
    \/ reply.json = "names" /\ reply.names = <<>>

RECURSIVE FilterExisting(_)
\* run, lines 76-80
FilterExisting(names) ==
    IF names = <<>> THEN <<>>
    ELSE IF Head(names) \in existing_agents
           THEN <<Head(names)>> \o FilterExisting(Tail(names))
           ELSE FilterExisting(Tail(names))

\* create_agents, lines 107-119: one agent per AgentInfo, in order
CreatedAgents(infos) == [i \in DOMAIN infos |-> infos[i].agent_name]

NoAutoLocals == [task |-> "", parsed |-> "none", agents |-> <<>>]
NoSubSwarm == [ran |-> FALSE, task |-> "", agents |-> <<>>]

IdleAutoSwarm ==
    /\ auto_pc = "idle"
    /\ auto_local = NoAutoLocals
    /\ auto_result = NoRunYet
    /\ auto_log = <<>>
    /\ sub_swarm = NoSubSwarm

InitAutoSwarm == IdleAutoSwarm

AutoReturns(kind) ==
    /\ auto_result' = [kind |-> kind, value |-> NoValue]
    /\ auto_log' = Append(auto_log, kind)
    /\ auto_pc' = IF kind = "Panic" THEN "panicked" ELSE "idle"

\* run, lines 58-73
auto_run(t) ==
    /\ auto_pc = "idle"
    /\ Len(auto_log) < MaxAutoRuns
    /\ sub_swarm' = NoSubSwarm
    /\ IF t = ""
         THEN /\ AutoReturns("EmptyTask")
              /\ auto_local' = NoAutoLocals
         ELSE /\ auto_pc' = "boss"
              /\ auto_local' = [NoAutoLocals EXCEPT !.task = t]
              /\ auto_result' = NoRunYet
              /\ UNCHANGED auto_log

\* run, lines 74-93, and create_agents, lines 100-105
auto_boss_returns ==
    /\ auto_pc = "boss"
    /\ \E o \in AutoBossOutcomes :
         CASE o.kind = "Err" ->
                AutoReturns("BossAgentError") /\ UNCHANGED auto_local
           [] o.kind = "Panic" ->
                AutoReturns("Panic") /\ UNCHANGED auto_local
           [] o.kind = "Ok" /\ ParsesAsSelect(o.reply) ->
                /\ auto_local' = [auto_local EXCEPT !.parsed = "select",
                                                    !.agents = FilterExisting(o.reply.names)]
                /\ auto_pc' = "router"
                /\ UNCHANGED <<auto_result, auto_log>>
           [] o.kind = "Ok" /\ ~ParsesAsSelect(o.reply) /\ ParsesAsCreate(o.reply) ->
                IF o.reply.infos = <<>>
                  THEN /\ AutoReturns("UnknownBossBehavior")
                       /\ auto_local' = [auto_local EXCEPT !.parsed = "create"]
                  ELSE /\ auto_local' = [auto_local EXCEPT !.parsed = "create",
                                                           !.agents = CreatedAgents(o.reply.infos)]
                       /\ auto_pc' = "router"
                       /\ UNCHANGED <<auto_result, auto_log>>
           [] OTHER ->
                /\ AutoReturns("UnknownBossBehavior")
                /\ auto_local' = [auto_local EXCEPT !.parsed = "neither"]
    /\ UNCHANGED sub_swarm

\* swarm_router, line 129: the type the router is built with
RouterSwarmType_concurrent == "ConcurrentWorkflow"
RouterSwarmType == "Auto"

\* SwarmRouter::create_swarm, swarm_router.rs lines 51-62
create_swarm(swarm_type) ==
    IF swarm_type = "ConcurrentWorkflow" THEN "ConcurrentWorkflow" ELSE "unimplemented"

\* swarm_router, lines 124-134, and SwarmRouter::run, swarm_router.rs lines
\* 39-49; ConcurrentWorkflow::run fails at once without agents
swarm_router ==
    /\ auto_pc = "router"
    /\ IF create_swarm(RouterSwarmType) = "unimplemented"
         THEN /\ AutoReturns("Panic")
              /\ UNCHANGED sub_swarm
         ELSE \E o \in SubSwarmOutcomes :
                IF auto_local.agents = <<>> \/ o = "Err"
                  THEN /\ AutoReturns("SwarmRouterError")
                       /\ UNCHANGED sub_swarm
                  ELSE /\ AutoReturns("Ok")
                       /\ sub_swarm' = [ran |-> TRUE, task |-> auto_local.task,
                                        agents |-> auto_local.agents]
    /\ UNCHANGED auto_local

AutoSwarmStep ==
    \/ \E t \in AutoTasks : auto_run(t)
    \/ auto_boss_returns
    \/ swarm_router

(***************************************************************************)
(* AgentConversation                                                       *)
(***************************************************************************)
ConvRoles == {[role |-> "User", name |-> UserName], [role |-> "Assistant", name |-> AgentName]}
ConvTexts == {<<"a">>, <<"b">>}
Timestamps == {"1", "2"}
ConvIndexes == 0..MaxConvOps

\* add, lines 43-46: the content is the text behind its time stamp
Stamped(timestamp, message) == <<"Time: ", timestamp, " \n">> \o message

\* what update may be given as content: any text
ConvContents == ConvTexts \cup {Stamped(ts, m) : ts \in Timestamps, m \in ConvTexts}

\* Vec::remove
Removed(history, index) ==
    SubSeq(history, 1, index) \o SubSeq(history, index + 2, Len(history))

RECURSIVE Filter(_, _)
\* search, lines 74-77: the messages whose content contains the keyword
Filter(history, keyword) ==
    IF history = <<>> THEN <<>>
    ELSE IF Contains(history[1].content, keyword)
           THEN <<history[1]>> \o Filter(Tail(history), keyword)
           ELSE Filter(Tail(history), keyword)

IdleConversation ==
    /\ conv_history = <<>>
    /\ conv_pc = "ready"
    /\ conv_out = <<>>
    /\ conv_ops = 0
    /\ conv_export = [file |-> NoFile, imports |-> 0]

\* new, lines 31-39
InitConversation == IdleConversation

ConvCall ==
    /\ conv_pc = "ready"
    /\ conv_ops < MaxConvOps
    /\ conv_ops' = conv_ops + 1
    /\ UNCHANGED conv_export

\* add, lines 41-55; save_filepath is None, nothing is saved
conv_add(role, message) ==
    /\ ConvCall
    /\ \E timestamp \in Timestamps :
         conv_history' = Append(conv_history,
                                [role |-> role, content |-> Stamped(timestamp, message)])
    /\ UNCHANGED <<conv_pc, conv_out>>

\* delete, lines 58-60; Vec::remove panics when index >= len
conv_delete(index) ==
    /\ ConvCall
    /\ IF index < Len(conv_history)
         THEN conv_history' = Removed(conv_history, index) /\ UNCHANGED conv_pc
         ELSE conv_pc' = "panicked" /\ UNCHANGED conv_history
    /\ UNCHANGED conv_out

\* update, lines 63-65; indexing panics when index >= len
conv_update(index, role, content) ==
    /\ ConvCall
    /\ IF index < Len(conv_history)
         THEN /\ conv_history' = [conv_history EXCEPT ![index + 1] =
                                     [role |-> role, content |-> content]]
              /\ UNCHANGED conv_pc
         ELSE conv_pc' = "panicked" /\ UNCHANGED conv_history
    /\ UNCHANGED conv_out

\* query, lines 68-70
conv_query(index) ==
    /\ ConvCall
    /\ IF index < Len(conv_history)
         THEN conv_out' = <<conv_history[index + 1]>> /\ UNCHANGED conv_pc
         ELSE conv_pc' = "panicked" /\ UNCHANGED conv_out
    /\ UNCHANGED conv_history

\* search, lines 73-78
conv_search(keyword) ==
    /\ ConvCall
    /\ conv_out' = Filter(conv_history, keyword)
    /\ UNCHANGED <<conv_history, conv_pc>>

\* clear, lines 81-83
conv_clear ==
    /\ ConvCall
    /\ conv_history' = <<>>
    /\ UNCHANGED <<conv_pc, conv_out>>

\* the characters of a text; ": " and "\n" are the two separators of the
\* export format
Chars(token) ==
    CASE token = "Time: " -> <<"Time", ": ">>
      [] token = " \n" -> <<" ", "\n">>
      [] OTHER -> <<token>>
Text(content) == Concat([i \in DOMAIN content |-> Chars(content[i])])

\* Display for Role, lines 190-197
RoleText(role) == role.name \o << "(" \o role.role \o ")" >>

\* Display for AgentConversation, lines 148-155: one writeln of
\* "{role}: {content}" per message
Display(history) ==
    Concat([i \in DOMAIN history |->
              RoleText(history[i].role) \o <<": ">> \o Text(history[i].content) \o <<"\n">>])

\* the position of the first occurrence of sep in data, 0 if there is none
FirstIndex(data, sep) ==
    IF \E i \in DOMAIN data : data[i] = sep
      THEN CHOOSE i \in DOMAIN data : data[i] = sep /\ \A j \in 1..(i - 1) : data[j] # sep
      ELSE 0

RECURSIVE SplitLines(_)
\* import_from_file, line 110: data.split(|s| *s == b'\n'); the piece behind
\* the last newline is a line too, also when it is empty
SplitLines(data) ==
    LET i == FirstIndex(data, "\n") IN
      IF i = 0 THEN <<data>>
      ELSE <<SubSeq(data, 1, i - 1)>> \o SplitLines(SubSeq(data, i + 1, Len(data)))

\* import_from_file, line 114: line.split_once(": ") is Some
HasSeparator(line) == FirstIndex(line, ": ") # 0

\* import_from_file, lines 114-123: the message of a line
ParsedLine(line) ==
    LET i == FirstIndex(line, ": ")
        role == SubSeq(line, 1, i - 1)
        content == SubSeq(line, i + 1, Len(line))
    IN IF \E k \in DOMAIN role : role[k] = "(User)"
         THEN [role |-> [role |-> "User", name |-> SelectSeq(role, LAMBDA c : c # "(User)")],
               content |-> content]
         ELSE [role |-> [role |-> "Assistant",
                         name |-> SelectSeq(role, LAMBDA c : c # "(Assistant)")],
               content |-> content]

\* export_to_file and import_from_file are calls like the others
ConvFileCall ==
    /\ conv_pc = "ready"
    /\ conv_ops < MaxConvOps
    /\ conv_ops' = conv_ops + 1

\* export_to_file, lines 100-104: the file is written, or the write fails
export_to_file ==
    /\ ConvFileCall
    /\ \/ conv_export' = [conv_export EXCEPT !.file = Display(conv_history)]
       \/ UNCHANGED conv_export
    /\ UNCHANGED <<conv_history, conv_pc, conv_out>>

\* import_from_file, lines 107-127: a missing file is an error; unwrap panics
\* on a line without ": " before the history is assigned
import_from_file ==
    /\ ConvFileCall
    /\ conv_export' = [conv_export EXCEPT !.imports = @ + 1]
    /\ IF conv_export.file = NoFile
         THEN UNCHANGED <<conv_history, conv_pc>>
         ELSE LET lines == SplitLines(conv_export.file) IN
              IF \A i \in DOMAIN lines : HasSeparator(lines[i])
                THEN /\ conv_history' = [i \in DOMAIN lines |-> ParsedLine(lines[i])]
                     /\ UNCHANGED conv_pc
                ELSE /\ conv_pc' = "panicked"
                     /\ UNCHANGED conv_history
    /\ UNCHANGED conv_out

ConversationStep ==
    \/ \E role \in ConvRoles, message \in ConvTexts : conv_add(role, message)
    \/ \E index \in ConvIndexes : conv_delete(index)
    \/ \E index \in ConvIndexes, role \in ConvRoles, content \in ConvContents :
          conv_update(index, role, content)
    \/ \E index \in ConvIndexes : conv_query(index)
    \/ \E keyword \in ConvTexts : conv_search(keyword)
    \/ conv_clear
    \/ export_to_file
    \/ import_from_file

(***************************************************************************)
(* BaseSwarm                                                               *)
(***************************************************************************)
\* the agents a swarm may be given: every agent has its own id, names are
\* whatever their configurations say (AgentConfig::default names every agent
\* "Agent 1")
SwarmAgentPool ==
    {[id |-> "i1", name |-> "Agent 1"], [id |-> "i2", name |-> "Agent 1"],
     [id |-> "i3", name |-> "Agent 2"]}
SwarmAgentIds == {a.id : a \in SwarmAgentPool} \cup {"i0"}

\* lists of distinct agents
SwarmAgentLists ==
    {l \in UNION {[1..n -> SwarmAgentPool] : n \in 0..MaxSwarmAgents} :
        \A i, j \in DOMAIN l : l[i] = l[j] => i = j}

\* HashMap::remove
MapRemove(map, key) == [k \in DOMAIN map \ {key} |-> map[k]]

RECURSIVE InsertIndexes(_, _, _)
\* initialize, lines 76-78: for (index, agent) in agents.iter().enumerate()
InsertIndexes(dict, list, index) ==
    IF index >= Len(list) THEN dict
    ELSE InsertIndexes(MapInsert(dict, list[index + 1].name, index), list, index + 1)

\* remove_agent, lines 202-209: the first position whose agent has the id,
\* counted from 0, or -1
IndexToRemove(list, agent_id) ==
    IF \E i \in 1..Len(list) : list[i].id = agent_id
      THEN (CHOOSE i \in 1..Len(list) :
               /\ list[i].id = agent_id
               /\ \A j \in 1..(i - 1) : list[j].id # agent_id) - 1
      ELSE -1

\* remove_agent, lines 217-221: every index behind the removed one moves down
Shifted(dict, index) == [k \in DOMAIN dict |-> IF dict[k] > index THEN dict[k] - 1 ELSE dict[k]]

IdleSwarm ==
    /\ swarm_agents = <<>>
    /\ agents_dict = <<>>
    /\ swarm_initialized = FALSE
    /\ swarm_ops = 0

\* new, lines 55-70: the agents given, an empty index
InitSwarm ==
    /\ swarm_agents \in SwarmAgentLists
    /\ agents_dict = <<>>
    /\ swarm_initialized = FALSE
    /\ swarm_ops = 0

SwarmCall ==
    /\ swarm_ops < MaxSwarmOps
    /\ swarm_ops' = swarm_ops + 1

\* initialize, lines 72-81
swarm_initialize ==
    /\ SwarmCall
    /\ agents_dict' = InsertIndexes(agents_dict, swarm_agents, 0)
    /\ swarm_initialized' = TRUE
    /\ UNCHANGED swarm_agents

\* add_agent, lines 186-196, given an agent that is not in the swarm
swarm_add_agent(agent) ==
    /\ SwarmCall
    /\ \A i \in DOMAIN swarm_agents : swarm_agents[i] # agent
    /\ Len(swarm_agents) < MaxSwarmAgents
    /\ LET index == Len(swarm_agents)
       IN /\ swarm_agents' = Append(swarm_agents, agent)
          /\ agents_dict' = MapInsert(agents_dict, agent.name, index)
    /\ UNCHANGED swarm_initialized

\* remove_agent, lines 198-225
swarm_remove_agent(agent_id) ==
    /\ SwarmCall
    /\ LET index == IndexToRemove(swarm_agents, agent_id)
       IN IF index >= 0
            THEN /\ swarm_agents' = Removed(swarm_agents, index)
                 /\ agents_dict' = Shifted(MapRemove(agents_dict, swarm_agents[index + 1].name),
                                           index)
            ELSE UNCHANGED <<swarm_agents, agents_dict>>
    /\ UNCHANGED swarm_initialized

SwarmStep ==
    \/ swarm_initialize
    \/ \E agent \in SwarmAgentPool : swarm_add_agent(agent)
    \/ \E agent_id \in SwarmAgentIds : swarm_remove_agent(agent_id)

(***************************************************************************)
(* BaseSwarm: the locks of initialize and get_agent_by_name                *)
(***************************************************************************)
Callers == 1..MaxCallers
SwarmLocks == {"agents", "agents_dict"}
LockedCalls == {"initialize", "get_agent_by_name"}
SwarmAgentNames == {a.name : a \in SwarmAgentPool}
NoCall == [op |-> "none", name |-> ""]
NoAgent == [id |-> "None", name |-> "None"]

IdleLocks ==
    lk = [holder |-> [l \in SwarmLocks |-> 0],
          pc |-> [c \in Callers |-> "idle"],
          call |-> [c \in Callers |-> NoCall],
          out |-> [c \in Callers |-> NoAgent],
          calls |-> [c \in Callers |-> 0]]

\* initialize, lines 73-74: agents, then agents_dict
\* get_agent_by_name, lines 92-93: agents_dict, then agents
LockOrder_same(op) == <<"agents", "agents_dict">>
LockOrder(op) ==
    IF op = "initialize" THEN <<"agents", "agents_dict">> ELSE <<"agents_dict", "agents">>

\* a caller calls initialize or get_agent_by_name on the shared swarm
locked_call(c, op, name) ==
    /\ lk.pc[c] = "idle"
    /\ lk.calls[c] < MaxLockCalls
    /\ lk' = [lk EXCEPT !.call[c] = [op |-> op, name |-> name],
                        !.pc[c] = "first",
                        !.calls[c] = @ + 1]
    /\ UNCHANGED swarmVars

\* lines 73 and 92: the first lock().await completes when the mutex is free
lock_first(c) ==
    /\ lk.pc[c] = "first"
    /\ lk.holder[LockOrder(lk.call[c].op)[1]] = 0
    /\ lk' = [lk EXCEPT !.holder[LockOrder(lk.call[c].op)[1]] = c,
                        !.pc[c] = "second"]
    /\ UNCHANGED swarmVars

\* lines 74 and 93: the second lock().await, the first guard is still held
lock_second(c) ==
    /\ lk.pc[c] = "second"
    /\ lk.holder[LockOrder(lk.call[c].op)[2]] = 0
    /\ lk' = [lk EXCEPT !.holder[LockOrder(lk.call[c].op)[2]] = c,
                        !.pc[c] = "body"]
    /\ UNCHANGED swarmVars

\* get_agent_by_name, lines 95-99: the agent at the index of the name
AgentByName(name) ==
    IF name \in DOMAIN agents_dict THEN swarm_agents[agents_dict[name] + 1] ELSE NoAgent

\* initialize, lines 76-80, and get_agent_by_name, lines 95-99: the body
\* under both locks; both guards are dropped when the call returns
locked_body(c) ==
    /\ lk.pc[c] = "body"
    /\ IF lk.call[c].op = "initialize"
         THEN /\ agents_dict' = InsertIndexes(agents_dict, swarm_agents, 0)
              /\ swarm_initialized' = TRUE
         ELSE UNCHANGED <<agents_dict, swarm_initialized>>
    /\ lk' = [lk EXCEPT !.out[c] = IF lk.call[c].op = "initialize"
                                     THEN @ ELSE AgentByName(lk.call[c].name),
                        !.holder = [l \in SwarmLocks |-> IF @[l] = c THEN 0 ELSE @[l]],
                        !.pc[c] = "idle"]
    /\ UNCHANGED <<swarm_agents, swarm_ops>>

LockStep ==
    \/ \E c \in Callers : \E op \in LockedCalls : \E name \in SwarmAgentNames :
          locked_call(c, op, IF op = "initialize" THEN "" ELSE name)
    \/ \E c \in Callers : lock_first(c)
    \/ \E c \in Callers : lock_second(c)
    \/ \E c \in Callers : locked_body(c)

(***************************************************************************)
(* TreeSwarm                                                               *)
(***************************************************************************)
NoParent == "None"
TreeNode(parent, depth) == [children |-> <<>>, parent |-> parent, depth |-> depth]
TreeConfigs == [max_depth : 1..2, branching_factor : 1..2]
NoTreeCall == [op |-> "none", kind |-> "none"]

NewTree(tree_config) ==
    [nodes |-> <<>>, root_id |-> NoParent, config |-> tree_config, last |-> NoTreeCall,
     ops |-> 0]

IdleTree == tree = NewTree([max_depth |-> 1, branching_factor |-> 1])

\* TreeSwarm::new, lines 48-58: a base swarm of the root agent, no nodes
InitTree ==
    /\ \E tree_config \in TreeConfigs : tree = NewTree(tree_config)
    /\ \E root_agent \in SwarmAgentPool : swarm_agents = <<root_agent>>
    /\ agents_dict = <<>>
    /\ swarm_initialized = FALSE
    /\ swarm_ops = 0

\* a call of op returns kind and leaves the nodes and the root id given
TreeCall(op, kind, nodes, root) ==
    /\ tree.ops < MaxTreeOps
    /\ tree' = [tree EXCEPT !.ops = @ + 1,
                            !.last = [op |-> op, kind |-> kind],
                            !.nodes = nodes,
                            !.root_id = root]

\* a call of op returns the error kind
TreeError(op, kind) ==
    /\ TreeCall(op, kind, tree.nodes, tree.root_id)
    /\ UNCHANGED <<swarm_agents, agents_dict>>

\* TreeSwarm::initialize, lines 61-88
tree_initialize ==
    /\ IF swarm_agents # <<>>
         THEN TreeCall("initialize", "Ok",
                       MapInsert(tree.nodes, swarm_agents[1].id, TreeNode(NoParent, 0)),
                       swarm_agents[1].id)
         ELSE TreeCall("initialize", "Ok", tree.nodes, tree.root_id)
    /\ agents_dict' = InsertIndexes(agents_dict, swarm_agents, 0)
    /\ swarm_initialized' = TRUE
    /\ UNCHANGED <<swarm_agents, swarm_ops>>

\* TreeSwarm::add_child, lines 91-131, given an agent that is not in the swarm
tree_add_child(parent_id, child_agent) ==
    /\ \A i \in DOMAIN swarm_agents : swarm_agents[i].id # child_agent.id
    /\ IF parent_id \notin DOMAIN tree.nodes
         THEN TreeError("add_child", "Parent node not found")
       ELSE IF tree.nodes[parent_id].depth >= tree.config.max_depth
         THEN TreeError("add_child", "Maximum tree depth reached")
       ELSE IF Len(tree.nodes[parent_id].children) >= tree.config.branching_factor
         THEN TreeError("add_child", "Maximum branching factor reached")
       ELSE /\ TreeCall("add_child", "Ok",
                 MapInsert([tree.nodes EXCEPT ![parent_id].children = Append(@, child_agent.id)],
                           child_agent.id,
                           TreeNode(parent_id, tree.nodes[parent_id].depth + 1)),
                 tree.root_id)
            /\ swarm_agents' = Append(swarm_agents, child_agent)
            /\ agents_dict' = MapInsert(agents_dict, child_agent.name, Len(swarm_agents))
    /\ UNCHANGED <<swarm_initialized, swarm_ops>>

\* remove_subtree, lines 294-310: the node and, before it, the subtrees of
\* its children
RECURSIVE remove_subtree(_, _)
RECURSIVE remove_subtrees(_, _)
remove_subtrees(children, nodes) ==
    IF children = <<>> THEN nodes
    ELSE remove_subtrees(Tail(children), remove_subtree(Head(children), nodes))
remove_subtree(node_id, nodes) ==
    IF node_id \in DOMAIN nodes
      THEN MapRemove(remove_subtrees(nodes[node_id].children, nodes), node_id)
      ELSE nodes

\* BaseSwarm::remove_agent, lines 198-225: the list and the name index
\* without the first agent of this id
BaseWithout(agent_id) ==
    LET index == IndexToRemove(swarm_agents, agent_id) IN
      IF index >= 0
        THEN [agents |-> Removed(swarm_agents, index),
              dict |-> Shifted(MapRemove(agents_dict, swarm_agents[index + 1].name), index)]
        ELSE [agents |-> swarm_agents, dict |-> agents_dict]

\* TreeSwarm::remove_agent, line 270: the base swarm is asked to remove the
\* agent of the removed node
RemovedFromBase_subtree(agent_id) ==
    LET gone == DOMAIN tree.nodes \ DOMAIN remove_subtree(agent_id, tree.nodes)
        kept == SelectSeq(swarm_agents, LAMBDA a : a.id \notin gone)
    IN [agents |-> kept, dict |-> InsertIndexes(<<>>, kept, 0)]
RemovedFromBase(agent_id) == BaseWithout(agent_id)

\* TreeSwarm::remove_agent, lines 248-277
tree_remove_agent(agent_id) ==
    /\ IF agent_id \notin DOMAIN tree.nodes
         THEN TreeError("remove_agent", "Agent not found in the tree")
       ELSE IF tree.nodes[agent_id].parent = NoParent
         THEN TreeError("remove_agent", "Cannot remove the root node")
       ELSE LET parent_id == tree.nodes[agent_id].parent
                retained == IF parent_id \in DOMAIN tree.nodes
                              THEN [tree.nodes EXCEPT ![parent_id].children =
                                       SelectSeq(@, LAMBDA id : id # agent_id)]
                              ELSE tree.nodes
            IN /\ TreeCall("remove_agent", "Ok", remove_subtree(agent_id, retained),
                           tree.root_id)
               /\ swarm_agents' = RemovedFromBase(agent_id).agents
               /\ agents_dict' = RemovedFromBase(agent_id).dict
    /\ UNCHANGED <<swarm_initialized, swarm_ops>>

TreeStep ==
    \/ tree_initialize
    \/ \E parent_id \in SwarmAgentIds : \E child_agent \in SwarmAgentPool :
          tree_add_child(parent_id, child_agent)
    \/ \E agent_id \in SwarmAgentIds : tree_remove_agent(agent_id)

(***************************************************************************)
(* RigAgent::run_multiple_tasks                                            *)
(***************************************************************************)
MultiTasks == {"t1", "t2"}
MultiTaskLists == UNION {[1..n -> MultiTasks] : n \in 0..MaxMultiTasks}

\* what agent.run(task) returns
MultiOutput(t) == <<"output of", t>>

NoMultiCall(list) ==
    [tasks |-> list, pc |-> "idle", future |-> <<>>, chan |-> <<>>, results |-> <<>>,
     result |-> NoRunYet]

IdleMultiTasks == mt = NoMultiCall(<<>>)

\* the task list the call is given
InitMultiTasks == \E list \in MultiTaskLists : mt = NoMultiCall(list)

\* run_multiple_tasks, line 318: mpsc::channel(1)
ResultCapacity_tasks == Len(mt.tasks)
ResultCapacity == 1

\* run_multiple_tasks, lines 313-320: the fan-out over the tasks starts
run_multiple_tasks ==
    /\ mt.pc = "idle"
    /\ mt' = [mt EXCEPT !.pc = "fanout",
                        !.future = [i \in DOMAIN mt.tasks |->
                                      [run |-> "running", tx |-> "none"]]]

\* run_multiple_tasks, line 324: agent.run(task) returns
mt_run_returns(i) ==
    /\ mt.pc = "fanout"
    /\ i \in DOMAIN mt.future
    /\ mt.future[i].run = "running"
    /\ \E outcome \in {"Ok", "Err"} :
         mt' = [mt EXCEPT !.future[i] = [run |-> outcome, tx |-> "sending"]]

\* run_multiple_tasks, line 325: tx.send((task, result)).await completes when
\* the channel has room
mt_send(i) ==
    /\ mt.pc = "fanout"
    /\ i \in DOMAIN mt.future
    /\ mt.future[i].tx = "sending"
    /\ Len(mt.chan) < ResultCapacity
    /\ mt' = [mt EXCEPT !.chan = Append(@, [task |-> mt.tasks[i],
                                            result |-> mt.future[i].run]),
                        !.future[i].tx = "sent"]

\* run_multiple_tasks, lines 327-329: for_each_concurrent completed, tx is dropped
mt_fanout_done ==
    /\ mt.pc = "fanout"
    /\ \A i \in DOMAIN mt.future : mt.future[i].tx = "sent"
    /\ mt' = [mt EXCEPT !.pc = "recv"]

\* run_multiple_tasks, lines 331-340: one iteration of the fan-in loop
mt_recv ==
    /\ mt.pc = "recv"
    /\ mt.chan # <<>>
    /\ mt' = [mt EXCEPT !.results = IF Head(mt.chan).result = "Ok"
                                      THEN Append(@, MultiOutput(Head(mt.chan).task))
                                      ELSE @,
                        !.chan = Tail(@)]

\* run_multiple_tasks, line 342
mt_returns ==
    /\ mt.pc = "recv"
    /\ mt.chan = <<>>
    /\ mt' = [mt EXCEPT !.result = [kind |-> "Ok", value |-> mt.results],
                        !.pc = "returned"]

MultiTasksStep ==
    \/ run_multiple_tasks
    \/ \E i \in 1..MaxMultiTasks : mt_run_returns(i)
    \/ \E i \in 1..MaxMultiTasks : mt_send(i)
    \/ mt_fanout_done
    \/ mt_recv
    \/ mt_returns

(***************************************************************************)
(* Specifications                                                          *)
(***************************************************************************)
NextAgent == AgentStep /\ UNCHANGED <<cwVars, graphVars, execVars, saveVars, orchVars, memVars, swVars, autoVars, convVars, swarmVars, mtVars, lkVars, treeVars>>

InitAgentRun == InitAgent /\ IdleWorkflow /\ IdleGraph /\ IdleExecute /\ IdleSave /\ IdleOrchestrator /\ IdleMemory /\ IdleSwarmsAgent /\ IdleAutoSwarm /\ IdleConversation /\ IdleSwarm /\ IdleMultiTasks /\ IdleLocks /\ IdleTree

SpecAgent == InitAgentRun /\ [][NextAgent]_vars

\* the scheduler keeps polling the future of run until it completes
\* the runs of an agent whose memory holds no earlier conversation, every step
\* of run taken eventually
InitAgentFresh == InitAgentRun /\ short_memory = <<>>

FairSpecAgent == InitAgentFresh /\ [][NextAgent]_vars /\ WF_vars(NextAgent)

NextWorkflow == WorkflowStep /\ UNCHANGED <<agentVars, graphVars, execVars, saveVars, orchVars, memVars, swVars, autoVars, convVars, swarmVars, mtVars, lkVars, treeVars>>

InitWorkflowRun == InitWorkflow /\ IdleAgent /\ IdleGraph /\ IdleExecute /\ IdleSave /\ IdleOrchestrator /\ IdleMemory /\ IdleSwarmsAgent /\ IdleAutoSwarm /\ IdleConversation /\ IdleSwarm /\ IdleMultiTasks /\ IdleLocks /\ IdleTree

SpecWorkflow == InitWorkflowRun /\ [][NextWorkflow]_vars

\* one call of run by a direct caller; every future of its fan-out and its
\* fan-in loop are polled again as long as they can make progress
RunStep ==
    \/ \E r \in Runs : RunStart(r)
    \/ \E r \in Runs : \E a \in 1..MaxAgents : AgentCompletes(r, a)
    \/ \E r \in Runs : FanoutDone(r)
    \/ \E r \in Runs : Recv(r)
    \/ \E r \in Runs : RecordMetadata(r)
    \/ \E r \in Runs : SaveMetadata(r)

NextRun == RunStep /\ UNCHANGED <<agentVars, graphVars, execVars, saveVars, orchVars, memVars, swVars, autoVars, convVars, swarmVars, mtVars, lkVars, treeVars>>

InitDirectRun == InitWorkflowRun /\ mode = "direct"

FairSpecRun == InitDirectRun /\ [][NextRun]_vars /\ WF_vars(NextRun)

NextGraph == GraphStep /\ UNCHANGED <<agentVars, cwVars, execVars, saveVars, orchVars, memVars, swVars, autoVars, convVars, swarmVars, mtVars, lkVars, treeVars>>

InitGraphRun == InitGraph /\ IdleAgent /\ IdleWorkflow /\ IdleExecute /\ IdleSave /\ IdleOrchestrator /\ IdleMemory /\ IdleSwarmsAgent /\ IdleAutoSwarm /\ IdleConversation /\ IdleSwarm /\ IdleMultiTasks /\ IdleLocks /\ IdleTree

SpecGraph == InitGraphRun /\ [][NextGraph]_vars

NextExecute == ExecuteStep /\ UNCHANGED <<agentVars, cwVars, graphVars, saveVars, orchVars, memVars, swVars, autoVars, convVars, swarmVars, mtVars, lkVars, treeVars>>

InitExecuteRun == InitExecute /\ IdleAgent /\ IdleWorkflow /\ IdleSave /\ IdleOrchestrator /\ IdleMemory /\ IdleSwarmsAgent /\ IdleAutoSwarm /\ IdleConversation /\ IdleSwarm /\ IdleMultiTasks /\ IdleLocks /\ IdleTree

SpecExecute == InitExecuteRun /\ [][NextExecute]_vars

NextSave == SaveStep /\ UNCHANGED <<agentVars, cwVars, graphVars, execVars, orchVars, memVars, swVars, autoVars, convVars, swarmVars, mtVars, lkVars, treeVars>>

InitSaveRun == InitSave /\ IdleAgent /\ IdleWorkflow /\ IdleGraph /\ IdleExecute /\ IdleOrchestrator /\ IdleMemory /\ IdleSwarmsAgent /\ IdleAutoSwarm /\ IdleConversation /\ IdleSwarm /\ IdleMultiTasks /\ IdleLocks /\ IdleTree

SpecSave == InitSaveRun /\ [][NextSave]_vars

NextOrchestrator ==
    OrchestratorStep /\ UNCHANGED <<agentVars, cwVars, graphVars, execVars, saveVars, memVars,
                              swVars, autoVars, convVars, swarmVars, mtVars, lkVars, treeVars>>

InitOrchestratorRun ==
    InitOrchestrator /\ IdleAgent /\ IdleWorkflow /\ IdleGraph /\ IdleExecute /\ IdleSave
      /\ IdleMemory /\ IdleSwarmsAgent /\ IdleAutoSwarm /\ IdleConversation /\ IdleSwarm /\ IdleMultiTasks /\ IdleLocks /\ IdleTree

SpecOrchestrator == InitOrchestratorRun /\ [][NextOrchestrator]_vars

NextMemory ==
    MemoryStep /\ UNCHANGED <<agentVars, cwVars, graphVars, execVars, saveVars, orchVars,
                              swVars, autoVars, convVars, swarmVars, mtVars, lkVars, treeVars>>

InitMemoryRun ==
    InitMemory /\ IdleAgent /\ IdleWorkflow /\ IdleGraph /\ IdleExecute /\ IdleSave
      /\ IdleOrchestrator /\ IdleSwarmsAgent /\ IdleAutoSwarm /\ IdleConversation /\ IdleSwarm /\ IdleMultiTasks /\ IdleLocks /\ IdleTree

SpecMemory == InitMemoryRun /\ [][NextMemory]_vars

NextSwarmsAgent ==
    SwarmsAgentStep /\ UNCHANGED <<agentVars, cwVars, graphVars, execVars, saveVars, orchVars,
                                   memVars, autoVars, convVars, swarmVars, mtVars, lkVars, treeVars>>

InitSwarmsAgentRun ==
    InitSwarmsAgent /\ IdleAgent /\ IdleWorkflow /\ IdleGraph /\ IdleExecute /\ IdleSave
      /\ IdleOrchestrator /\ IdleMemory /\ IdleAutoSwarm /\ IdleConversation /\ IdleSwarm /\ IdleMultiTasks /\ IdleLocks /\ IdleTree

SpecSwarmsAgent == InitSwarmsAgentRun /\ [][NextSwarmsAgent]_vars

NextAutoSwarm ==
    AutoSwarmStep /\ UNCHANGED <<agentVars, cwVars, graphVars, execVars, saveVars, orchVars,
                                 memVars, swVars, convVars, swarmVars, mtVars, lkVars, treeVars>>

InitAutoSwarmRun ==
    InitAutoSwarm /\ IdleAgent /\ IdleWorkflow /\ IdleGraph /\ IdleExecute /\ IdleSave
      /\ IdleOrchestrator /\ IdleMemory /\ IdleSwarmsAgent /\ IdleConversation /\ IdleSwarm /\ IdleMultiTasks /\ IdleLocks /\ IdleTree

SpecAutoSwarm == InitAutoSwarmRun /\ [][NextAutoSwarm]_vars

NextConversation ==
    ConversationStep /\ UNCHANGED <<agentVars, cwVars, graphVars, execVars, saveVars, orchVars,
                                    memVars, swVars, autoVars, swarmVars, mtVars, lkVars, treeVars>>

InitConversationRun ==
    InitConversation /\ IdleAgent /\ IdleWorkflow /\ IdleGraph /\ IdleExecute /\ IdleSave
      /\ IdleOrchestrator /\ IdleMemory /\ IdleSwarmsAgent /\ IdleAutoSwarm /\ IdleSwarm /\ IdleMultiTasks /\ IdleLocks /\ IdleTree

SpecConversation == InitConversationRun /\ [][NextConversation]_vars

NextSwarm ==
    SwarmStep /\ UNCHANGED <<agentVars, cwVars, graphVars, execVars, saveVars, orchVars,
                             memVars, swVars, autoVars, convVars, mtVars, lkVars, treeVars>>

InitSwarmRun ==
    InitSwarm /\ IdleAgent /\ IdleWorkflow /\ IdleGraph /\ IdleExecute /\ IdleSave
      /\ IdleOrchestrator /\ IdleMemory /\ IdleSwarmsAgent /\ IdleAutoSwarm /\ IdleConversation /\ IdleMultiTasks /\ IdleLocks /\ IdleTree

SpecSwarm == InitSwarmRun /\ [][NextSwarm]_vars

NextMultiTasks ==
    MultiTasksStep /\ UNCHANGED <<agentVars, cwVars, graphVars, execVars, saveVars, orchVars,
                                  memVars, swVars, autoVars, convVars, swarmVars, lkVars, treeVars>>

InitMultiTasksRun ==
    InitMultiTasks /\ IdleAgent /\ IdleWorkflow /\ IdleGraph /\ IdleExecute /\ IdleSave
      /\ IdleOrchestrator /\ IdleMemory /\ IdleSwarmsAgent /\ IdleAutoSwarm
      /\ IdleConversation /\ IdleSwarm /\ IdleLocks /\ IdleTree

SpecMultiTasks == InitMultiTasksRun /\ [][NextMultiTasks]_vars

NextLocks ==
    LockStep /\ UNCHANGED <<agentVars, cwVars, graphVars, execVars, saveVars, orchVars,
                            memVars, swVars, autoVars, convVars, mtVars, treeVars>>

InitLocksRun ==
    InitSwarm /\ IdleLocks /\ IdleAgent /\ IdleWorkflow /\ IdleGraph /\ IdleExecute
      /\ IdleSave /\ IdleOrchestrator /\ IdleMemory /\ IdleSwarmsAgent /\ IdleAutoSwarm
      /\ IdleConversation /\ IdleMultiTasks /\ IdleTree

SpecLocks == InitLocksRun /\ [][NextLocks]_vars

NextTree ==
    TreeStep /\ UNCHANGED <<agentVars, cwVars, graphVars, execVars, saveVars, orchVars,
                            memVars, swVars, autoVars, convVars, mtVars, lkVars>>

InitTreeRun ==
    InitTree /\ IdleLocks /\ IdleAgent /\ IdleWorkflow /\ IdleGraph /\ IdleExecute
      /\ IdleSave /\ IdleOrchestrator /\ IdleMemory /\ IdleSwarmsAgent /\ IdleAutoSwarm
      /\ IdleConversation /\ IdleMultiTasks

SpecTree == InitTreeRun /\ [][NextTree]_vars

(***************************************************************************)
(* Properties of RigAgent::run                                             *)
(***************************************************************************)
Done == pc = "done"
AllCompletionsFailed == trace.appended = <<>>
PlainRun == ~config.plan_enabled /\ ~long_term_memory

\* C1 (as stated): with planning and long-term memory disabled and a model
\* whose every completion fails, run issues exactly retry_attempts model calls.
C1_Original ==
    (Done /\ PlainRun /\ AllCompletionsFailed) => trace.chat = config.retry_attempts

\* C1 (amended): with planning and long-term memory disabled and a model
\* whose every completion fails, run issues exactly retry_attempts model
\* calls, all in one loop iteration, if it enters the loop, and no model call
\* if it does not enter the loop (max_loops = 0 or the checkpoint before the
\* loop failed); it never issues retry_attempts * max_loops calls spread over
\* several iterations.
C1_RetryBound ==
    (Done /\ PlainRun /\ AllCompletionsFailed) =>
        /\ trace.iterations <= 1
        /\ trace.chat = IF trace.iterations = 1 THEN config.retry_attempts ELSE 0
        /\ trace.iterations = 0 =>
              (config.max_loops = 0 \/ (config.autosave /\ trace.checkpoint_failed))

C1_Witness ==
    /\ Done /\ PlainRun /\ AllCompletionsFailed
    /\ config.max_loops = 2 /\ config.retry_attempts = 2
    /\ trace.chat = 2 /\ trace.iterations = 1

\* C2: once a response of iteration i contains a configured stop word, no
\* further model call is issued and no further message is appended to the
\* conversation of the task.
C2_StopWordHalts ==
    [][trace.stop_at # 0 =>
         /\ trace'.chat = trace.chat
         /\ trace'.iterations = trace.stop_at
         /\ short_memory'[task] = short_memory[task]]_vars

C2_Witness ==
    /\ Done /\ trace.stop_at = 1 /\ config.max_loops = 2
    /\ trace.chat = 1 /\ Len(trace.appended) = 1
    /\ last_response # <<"D">> /\ config.stop_words = {<<"D">>}

\* C3 (as stated): when all attempts of an iteration failed, run returns Ok
\* with the concatenation of the responses of the earlier iterations.
C3_Original ==
    (Done /\ trace.exhausted) =>
        result = [kind |-> "Ok", value |-> Concat(trace.appended)]

\* C3 (amended): when all attempts of an iteration failed, run leaves the
\* loop and returns Ok with the concatenation of the responses of the earlier
\* iterations (empty if none), except that with autosave a failure of the
\* checkpoint after the loop is returned as the error of run.
C3_ExhaustionReturnsOk ==
    (Done /\ trace.exhausted) =>
        \/ /\ result = [kind |-> "Ok", value |-> Concat(trace.appended)]
           /\ Len(trace.appended) = trace.iterations - 1
        \/ /\ result.kind = "Err"
           /\ config.autosave /\ trace.checkpoint_failed

C3_Witness ==
    /\ Done /\ trace.exhausted /\ result.kind = "Ok"
    /\ trace.iterations = 2 /\ Len(trace.appended) = 1
    /\ trace.chat = 1 + config.retry_attempts /\ config.retry_attempts = 2

\* C4: run terminates; it enters at most max_loops iterations, issues at most
\* max_loops * retry_attempts completion calls in the loop and appends at most
\* max_loops responses.
LoopBounds ==
    /\ trace.iterations <= config.max_loops
    /\ trace.chat <= config.max_loops * config.retry_attempts
    /\ Len(trace.appended) <= config.max_loops
C4_Terminates == []LoopBounds /\ <>Done

C4_Witness ==
    /\ Done /\ config.max_loops = 2 /\ config.retry_attempts = 2
    /\ trace.iterations = 2 /\ trace.chat = 4 /\ Len(trace.appended) = 2

Returned(r) == run_pc[r] \in {"returned", "sent"}
Accepted(r) ==
    /\ run_pc[r] \notin {"idle", "start"}
    /\ run_result[r].kind \notin {"EmptyTasksOrAgents", "TaskAlreadyExists"}
SuccessfulAgents(r) == {a \in Agents : producer[r][a].run = "Ok"}
NamesOf(list) == [i \in 1..Len(list) |-> list[i].agent_name]

\* C6: a call of run whose task is already in the task set returns
\* TaskAlreadyExists; it starts no agent and changes neither the task set, the
\* conversations, the metadata map nor the metadata files.
C6_DuplicateRejected ==
    [][\A r \in Calls :
         (run_pc[r] = "start" /\ run_pc'[r] # "start" /\ batch_tasks[r] \in tasks) =>
            /\ run_result'[r].kind = "TaskAlreadyExists"
            /\ UNCHANGED <<tasks, conversation, metadata_map, files, producer, chan,
                           fanouts>>]_vars

C6_Witness ==
    \E r1, r2 \in Calls :
        /\ r1 # r2 /\ batch_tasks[r1] = batch_tasks[r2]
        /\ run_result[r1].kind = "Ok"
        /\ run_result[r2].kind = "TaskAlreadyExists"
        /\ Digest(batch_tasks[r1]) \in DOMAIN files
        /\ fanouts[batch_tasks[r1]] = 1

C8_ArrivalOrder ==
    \A r \in Calls :
        run_result[r].kind = "Ok" =>
            LET conv == run_result[r].conversation
                sent == [i \in 1..Len(arrival[r]) |-> AgentNames[arrival[r][i]]]
            IN /\ conv[1].role = "User"
               /\ [i \in 1..(Len(conv) - 1) |-> conv[i + 1].name] = sent
               /\ \A i \in 2..Len(conv) : conv[i].role = "Assistant"
               /\ NamesOf(metadata_map[batch_tasks[r]].agents_output_schema) = sent

C8_Witness ==
    \E r \in Calls :
        /\ run_result[r].kind = "Ok"
        /\ arrival[r] = <<2, 1>>
        /\ run_result[r].conversation[2].name = "A2"

\* C9: run_batch with tasks and agents returns Ok with a map whose keys are
\* the tasks of the calls of run that returned Ok; of the calls with the same
\* (non-empty) task exactly one is accepted, the agents run once for the task,
\* and the other calls return TaskAlreadyExists.
C9_BatchResult ==
    (batch_pc = "done" /\ batch_tasks # <<>> /\ agents > 0) =>
        /\ batch_result.kind = "Ok"
        /\ DOMAIN batch_result.conversation
             = {batch_tasks[r] : r \in {c \in Calls : run_result[c].kind = "Ok"}}
        /\ \A r \in Calls : run_result[r].kind = "Ok" =>
             batch_result.conversation[batch_tasks[r]] = run_result[r].conversation
        /\ \A t \in WorkflowTasks \ {""} :
             LET same == {r \in Calls : batch_tasks[r] = t} IN
               same # {} =>
                 /\ Cardinality({r \in same : Accepted(r)}) = 1
                 /\ \A r \in same : ~Accepted(r) => run_result[r].kind = "TaskAlreadyExists"
                 /\ fanouts[t] = 1

C9_Witness ==
    /\ batch_pc = "done" /\ batch_result.kind = "Ok"
    /\ \E r1, r2 \in Calls :
         /\ r1 # r2 /\ batch_tasks[r1] = batch_tasks[r2]
         /\ run_result[r1].kind = "Ok"
         /\ run_result[r2].kind = "TaskAlreadyExists"
         /\ DOMAIN batch_result.conversation = {batch_tasks[r1]}


(***************************************************************************)
(* Properties of AgentRearrange                                            *)
(***************************************************************************)
NodeNames(g) == {g.nodes[i + 1] : i \in node_indices(g)}
Adjacency(g) ==
    [i \in node_indices(g) |->
       [k \in 1..Len(g.out[i + 1]) |->
          <<g.edges[g.out[i + 1][k] + 1].to, g.edges[g.out[i + 1][k] + 1].flow>>]]
Successors(g, set) == {g.edges[e + 1].to : e \in {x \in edge_indices(g) : g.edges[x + 1].from \in set}}
RECURSIVE ReachableFrom(_, _)
ReachableFrom(g, set) ==
    IF Successors(g, set) \subseteq set THEN set ELSE ReachableFrom(g, set \cup Successors(g, set))

\* the edge from -> to would close a directed cycle of the workflow graph
ClosesCycle(from, to) ==
    /\ from \in graph_agents /\ to \in graph_agents
    /\ name_to_node[from] \in ReachableFrom(workflow, {name_to_node[to]})

\* C10: a call connect_agents(from, to, flow) whose edge would close a
\* directed cycle returns CycleDetected and leaves the nodes, the edge count
\* and the adjacency of the graph as they were.
C10_CycleRejected ==
    [][(last_call'.op = "connect_agents" /\ ClosesCycle(last_call'.from, last_call'.to)) =>
          /\ last_call'.kind = "CycleDetected"
          /\ NodeNames(workflow') = NodeNames(workflow)
          /\ edge_count(workflow') = edge_count(workflow)
          /\ Adjacency(workflow') = Adjacency(workflow)]_vars

\* some node of g reaches itself along one or more edges
HasDirectedCycle(g) ==
    \E n \in node_indices(g) : n \in ReachableFrom(g, Successors(g, {n}))

\* C11: after any sequence of register_agent, connect_agents,
\* disconnect_agents and remove_agent calls the workflow graph has no directed
\* cycle and no self-loop.
C11_Acyclic == ~HasDirectedCycle(workflow)

(***************************************************************************)
(* Properties of execute_workflow                                          *)
(***************************************************************************)
\* the edges that the callers of the innermost call have not processed yet
\* and whose condition holds on the caller's output, the innermost caller first
RECURSIVE PendingSiblings(_)
PendingSiblings(callers) ==
    IF callers = <<>> THEN <<>>
    ELSE LET caller == callers[Len(callers)] IN
         SelectSeq(caller.edges, LAMBDA e : should_flow(e.flow, caller.output))
           \o PendingSiblings(SubSeq(callers, 1, Len(callers) - 1))

\* this step is the failure of the agent of the innermost call
NodeFails ==
    /\ exec_pc = "running"
    /\ Len(exec_log') = Len(exec_log) + 1
    /\ exec_log'[Len(exec_log')].result.kind # "Ok"

\* C12: when the agent of a node fails, none of the node's outgoing edges is
\* followed, and the remaining outgoing edges of its predecessors whose
\* conditions hold are still executed: the next agent run is the target of
\* the first of them.
C12_SiblingsContinue ==
    [][NodeFails =>
         LET callers == SubSeq(stack, 1, Len(stack) - 1)
             failed == stack[Len(stack)].node
         IN /\ \A i \in DOMAIN stack' : stack'[i].node = failed => i \in DOMAIN stack
            /\ \A i \in DOMAIN stack' : i > Len(stack) - 1 =>
                 \E e \in {PendingSiblings(callers)[k] : k \in DOMAIN PendingSiblings(callers)} :
                    stack'[i].node = e.target
            /\ PendingSiblings(callers) # <<>> =>
                 /\ exec_pc' = "running"
                 /\ stack'[Len(stack')].node = Head(PendingSiblings(callers)).target]_vars

LastResultOf(name) ==
    LET runs == SelectSeq(exec_log, LAMBDA r : r.name = name) IN runs[Len(runs)].result

\* C13: execute_workflow from a registered start node returns the result map:
\* one entry for every node that was executed, a failed node with its error
\* as value; a failed node does not make the call an error.
C13_ErrorsInResultMap ==
    (exec_pc = "done" /\ exec_log # <<>>) =>
        /\ exec_return.kind = "Ok"
        /\ DOMAIN exec_return.results = {exec_log[i].name : i \in DOMAIN exec_log}
        /\ \A name \in DOMAIN exec_return.results :
              exec_return.results[name] = LastResultOf(name)

\* C14: for every successful run of a node and every outgoing edge with a
\* condition and a transform: if the condition holds on the output, the target
\* is run afterwards on the transformed output; if it does not hold and no
\* other edge or run reaches the target, the target is not run and has no
\* entry in the result map.
C14_ConditionAndTransform ==
    exec_pc = "done" =>
      \A i \in DOMAIN exec_log :
        exec_log[i].result.kind = "Ok" =>
          LET output == exec_log[i].result.value
              edges == edges_directed(workflow, exec_log[i].node)
          IN \A k \in DOMAIN edges :
               (edges[k].flow.condition # "none" /\ edges[k].flow.transform # "none") =>
                  /\ should_flow(edges[k].flow, output) =>
                       \E j \in DOMAIN exec_log :
                          /\ j > i
                          /\ exec_log[j].node = edges[k].target
                          /\ exec_log[j].input = next_input(edges[k].flow, output)
                  /\ ( /\ ~should_flow(edges[k].flow, output)
                       /\ Len(workflow.inc[edges[k].target + 1]) = 1
                       /\ \A j \in DOMAIN exec_log : exec_log[j].node = exec_log[i].node => j = i ) =>
                       /\ \A j \in DOMAIN exec_log : exec_log[j].node # edges[k].target
                       /\ workflow.nodes[edges[k].target + 1] \notin DOMAIN exec_results

(***************************************************************************)
(* Properties of the persistence primitive                                 *)
(***************************************************************************)
\* the call that started last, when no call overlapped another
LastSave(s) ==
    /\ ~overlapped
    /\ save_pc[s] # "idle"
    /\ \A later \in Saves : later > s => save_pc[later] = "idle"

\* C15: at every step of one save and after it, the target holds either its
\* complete contents from before the call (no file, if there was none) or the
\* complete new bytes; after a successful return it holds the new bytes.
C15_ReaderSeesOldOrNew ==
    \A s \in Saves :
        LastSave(s) =>
            /\ fs[path] \in {pre_call[s], Payload(s)}
            /\ save_result[s] = "Ok" => fs[path] = Payload(s)

C15_Witness ==
    /\ LastSave(1)
    /\ save_pc[1] = "remove"
    /\ pre_call[1] = OldContents
    /\ fs[path] = Payload(1)
    /\ fs[backup_path] = OldContents

\* C16: after two successive successful saves of the same target, the target
\* holds the bytes of the second save and neither the temporary nor the
\* backup file exists.
C16_SecondSaveWins ==
    \A s \in Saves :
        (s > 1 /\ LastSave(s) /\ save_result[s - 1] = "Ok" /\ save_result[s] = "Ok") =>
            /\ fs[path] = Payload(s)
            /\ fs[temp_path] = NoFile
            /\ fs[backup_path] = NoFile

C16_Witness ==
    /\ LastSave(2)
    /\ save_result[1] = "Ok" /\ save_result[2] = "Ok"
    /\ pre_call[1] = NoFile
    /\ pre_call[2] = Payload(1)
    /\ fs[path] = Payload(2)


\* ---- C17 ----
\* a step of run in which an attempt failed and the error handler ran
HandlerRan ==
    /\ pc \in {"attempt", "chat"}
    /\ trace'.chat + trace'.top_n = trace.chat + trace.top_n + 1
    /\ success' = success
    /\ short_memory' = short_memory
    /\ result'.kind # "Panic"

\* C17: with autosave, a failed checkpoint inside the retry error handler
\* changes neither the control flow of run (the next attempt follows, nothing
\* is returned) nor its result (once the loop is entered, run returns Err only
\* when the post-loop checkpoint failed); a failed pre-loop or post-loop
\* checkpoint makes run return the error, in the post-loop case with the
\* responses of the loop already appended to the conversation.
C17_CheckpointFailures ==
    /\ [][(config.autosave /\ HandlerRan) =>
             /\ pc' = "attempt"
             /\ attempt' = attempt + 1
             /\ result' = result]_vars
    /\ [](( Done /\ config.autosave) =>
             /\ trace.checkpoint_failed => result.kind = "Err"
             /\ (trace.iterations >= 1 /\ result.kind = "Err") => trace.checkpoint_failed
             /\ (trace.checkpoint_failed /\ trace.iterations >= 1) =>
                   LET conv == short_memory[task]
                       n == Len(trace.appended)
                       pre == Len(conv) - n
                   IN /\ pre >= 1
                      /\ \A i \in 1..n :
                            conv[pre + i] = Message("Assistant", AgentName, trace.appended[i]))

\* a run whose handler checkpoint failed and went on to a later successful
\* attempt, and whose post-loop checkpoint then failed
C17_Witness ==
    /\ Done
    /\ config.autosave
    /\ trace.dropped
    /\ trace.checkpoint_failed
    /\ trace.iterations >= 1
    /\ Len(trace.appended) >= 1
    /\ result.kind = "Err"

\* a run that returns Ok although a handler checkpoint failed
C17_WitnessDropped ==
    /\ Done
    /\ config.autosave
    /\ trace.dropped
    /\ ~trace.checkpoint_failed
    /\ result.kind = "Ok"


(***************************************************************************)
(* Properties of MultiAgentOrchestrator                                    *)
(***************************************************************************)
OrchTypeOK ==
    /\ orch_new.kind \in {"unbuilt", "Ok", "NameOrDescriptionNotFound", "DuplicateAgentName"}
    /\ \A r \in OrchRuns : orch_pc[r] \in {"idle", "boss", "worker", "returned"}

Built == orch_new # NotBuilt
SomeEmpty ==
    \E i \in DOMAIN orch_agents :
       orch_agents[i].name = "" \/ orch_agents[i].description = ""
SharedName ==
    \E i, j \in DOMAIN orch_agents :
       i # j /\ orch_agents[i].name = orch_agents[j].name

\* C18 (as stated): new fails with NameOrDescriptionNotFound if a worker has
\* an empty name or description, and with DuplicateAgentName if two workers
\* share a name; it succeeds exactly when neither is the case.
C18_Original ==
    Built =>
       /\ SomeEmpty => orch_new.kind = "NameOrDescriptionNotFound"
       /\ SharedName => orch_new.kind = "DuplicateAgentName"
       /\ orch_new.kind = "Ok" <=> (~SomeEmpty /\ ~SharedName)

\* C18: new fails with NameOrDescriptionNotFound if a worker has an empty
\* name or description, also when two workers share a name; it fails with
\* DuplicateAgentName (carrying a shared name) if two workers share a name and
\* no name or description is empty; it succeeds exactly when all names and
\* descriptions are non-empty and the names are pairwise distinct.
C18_Construction ==
    Built =>
       /\ SomeEmpty => orch_new.kind = "NameOrDescriptionNotFound"
       /\ (SharedName /\ ~SomeEmpty) =>
             /\ orch_new.kind = "DuplicateAgentName"
             /\ \E i, j \in DOMAIN orch_agents :
                   i # j /\ orch_agents[i].name = orch_new.value
                         /\ orch_agents[j].name = orch_new.value
       /\ orch_new.kind = "Ok" <=> (~SomeEmpty /\ ~SharedName)

\* new was given two workers of the same name, one without a description
C18_Witness ==
    /\ Built
    /\ SharedName
    /\ SomeEmpty
    /\ \A i \in DOMAIN orch_agents : orch_agents[i].name # ""
    /\ orch_new.kind = "NameOrDescriptionNotFound"

\* new was given two workers of the same name and failed with DuplicateAgentName
C18_WitnessDuplicate ==
    /\ Built
    /\ orch_new = [kind |-> "DuplicateAgentName", value |-> "A1"]

\* ---- C19 ----
\* what the boss answered in call r, once boss.run returned Ok
BossAnswered(r) == orch_local[r].boss_response_str.kind = "Ok"
BossText(r) == orch_local[r].boss_response_str.value
IsSelectAgentResponse(str) ==
    /\ str.text = "object"
    /\ "selected_agent" \in DOMAIN str.fields
    /\ "reasoning" \in DOMAIN str.fields
InRoster(agent_name) == \E i \in DOMAIN orch_agents : orch_agents[i].name = agent_name
WorkerRunsOf(r) == worker_runs[r]

\* C19: a call of run whose boss response does not parse as a
\* SelectAgentResponse returns an error (the JSON error), one whose boss
\* response names an agent that is not in the roster returns AgentNotFound;
\* in both cases no worker is run by the call.
C19_FatalBossResponse ==
    \A r \in OrchRuns :
       BossAnswered(r) =>
          /\ ~IsSelectAgentResponse(BossText(r)) =>
                /\ orch_pc[r] = "returned"
                /\ orch_result[r].kind = "JsonError"
                /\ WorkerRunsOf(r) = <<>>
          /\ (IsSelectAgentResponse(BossText(r))
                /\ ~InRoster(BossText(r).fields.selected_agent)) =>
                /\ orch_pc[r] = "returned"
                /\ orch_result[r].kind = "AgentNotFound"
                /\ WorkerRunsOf(r) = <<>>

\* with execution enabled and workers in the roster, one call got a response
\* that does not parse and another one a response naming an unknown agent
C19_Witness ==
    /\ enable_execute_task
    /\ orch_agents # <<>>
    /\ \E r1, r2 \in OrchRuns :
          /\ BossAnswered(r1) /\ ~IsSelectAgentResponse(BossText(r1))
          /\ orch_result[r1].kind = "JsonError"
          /\ BossAnswered(r2) /\ IsSelectAgentResponse(BossText(r2))
          /\ ~InRoster(BossText(r2).fields.selected_agent)
          /\ orch_result[r2].kind = "AgentNotFound"

\* ---- C20 ----
SucceededWithoutExecution(r) ==
    /\ ~enable_execute_task
    /\ orch_pc[r] = "returned"
    /\ orch_result[r].kind = "Ok"
DecisionOnly(r) ==
    /\ WorkerRunsOf(r) = <<>>
    /\ orch_result[r].value.execution.was_executed = FALSE
    /\ orch_result[r].value.execution.response = None
    /\ orch_result[r].value.execution.execution_time = None
UserThenBoss(r) ==
    <<Message("User", "User", orch_local[r].task),
      Message("Assistant", BossName, BossText(r))>>
CallsWith(t) == {q \in OrchRuns : orch_pc[q] # "idle" /\ orch_local[q].task = t}

\* the messages a call has added to the router memory when no worker is run:
\* the User message when it starts, the boss reply when it was parsed
AddedWithoutExecution(q) ==
    CASE orch_pc[q] = "idle" -> 0
      [] orch_pc[q] = "boss" -> 1
      [] OTHER -> IF orch_result[q].kind \in {"Ok", "AgentNotFound"} THEN 2 ELSE 1

RECURSIVE SumAdded(_)
SumAdded(calls) ==
    IF calls = {} THEN 0
    ELSE LET q == CHOOSE c \in calls : TRUE
         IN AddedWithoutExecution(q) + SumAdded(calls \ {q})

\* C20 (as stated): with enable_execute_task = false a successful run executes
\* no worker, its result has was_executed = false, no response and no
\* execution_time, and the router memory for the task holds exactly the User
\* message followed by the boss reply.
C20_Original ==
    \A r \in OrchRuns :
       SucceededWithoutExecution(r) =>
          /\ DecisionOnly(r)
          /\ router_conversation[orch_local[r].task] = UserThenBoss(r)

\* C20: with enable_execute_task = false a successful run executes no worker
\* and its result has was_executed = false, no response and no execution_time;
\* the run adds exactly two messages to the router memory for the task, the
\* User message and later the boss reply, so that the memory holds exactly
\* these two when no other call of run used the same task, and otherwise
\* holds them among the messages of the other calls.
C20_DecisionOnly ==
    /\ ~enable_execute_task =>
          /\ \A r \in OrchRuns : worker_runs[r] = <<>>
          /\ \A t \in DOMAIN router_conversation :
                Len(router_conversation[t]) = SumAdded(CallsWith(t))
    /\ \A r \in OrchRuns :
          SucceededWithoutExecution(r) =>
             LET conv == router_conversation[orch_local[r].task]
                 added == UserThenBoss(r)
             IN /\ DecisionOnly(r)
                /\ CallsWith(orch_local[r].task) = {r} => conv = added
                /\ \E i \in DOMAIN conv :
                      /\ conv[i] = added[1]
                      /\ \E j \in (i + 1)..Len(conv) : conv[j] = added[2]

\* a successful run without execution, the only one that used its task, and
\* a boss reply that modified the task
C20_Witness ==
    \E r \in OrchRuns :
       /\ SucceededWithoutExecution(r)
       /\ CallsWith(orch_local[r].task) = {r}
       /\ orch_result[r].value.task.modified = Some("m")
       /\ router_conversation[orch_local[r].task] = UserThenBoss(r)

\* two successful runs without execution used the same task
C20_WitnessShared ==
    \E r1, r2 \in OrchRuns :
       /\ r1 # r2
       /\ SucceededWithoutExecution(r1) /\ SucceededWithoutExecution(r2)
       /\ orch_local[r1].task = orch_local[r2].task
       /\ Len(router_conversation[orch_local[r1].task]) = 4

\* ---- C21 ----
\* with execution enabled, the boss of call r named a worker of the roster
NamedWorker(r) ==
    /\ enable_execute_task
    /\ BossAnswered(r)
    /\ IsSelectAgentResponse(BossText(r))
    /\ InRoster(BossText(r).fields.selected_agent)
NamedW(r) == BossText(r).fields.selected_agent
TaskForWorker(r) ==
    IF "modified_task" \in DOMAIN BossText(r).fields
      THEN BossText(r).fields.modified_task
      ELSE orch_local[r].task
RanExactlyW(r) ==
    /\ Len(WorkerRunsOf(r)) = 1
    /\ orch_agents[WorkerRunsOf(r)[1].agent].name = NamedW(r)
    /\ WorkerRunsOf(r)[1].task = TaskForWorker(r)
ExecutedResult(r) ==
    /\ orch_result[r].value.execution.agent_name = NamedW(r)
    /\ orch_result[r].value.execution.was_executed = TRUE
    /\ orch_result[r].value.execution.response # None
    /\ orch_result[r].value.execution.response[1] \in WorkerOutputs
UserBossWorker(r) ==
    <<Message("User", "User", orch_local[r].task),
      Message("Assistant", BossName, BossText(r)),
      Message("Assistant", NamedW(r), orch_result[r].value.execution.response[1])>>
Succeeded(r) == orch_pc[r] = "returned" /\ orch_result[r].kind = "Ok"

\* C21 (as stated): with enable_execute_task = true and a boss decision naming
\* roster worker W, exactly W is run, exactly once, with the modified task if
\* present and otherwise the original one; the result has agent_name = W,
\* was_executed = true and response = W's output, and the router memory for
\* the original task is User(task), Assistant(boss, reply), Assistant(W, output).
C21_Original ==
    \A r \in OrchRuns :
       NamedWorker(r) =>
          /\ RanExactlyW(r)
          /\ Succeeded(r) =>
                /\ ExecutedResult(r)
                /\ router_conversation[orch_local[r].task] = UserBossWorker(r)

\* C21: with enable_execute_task = true and a boss decision naming roster
\* worker W, exactly W is run, exactly once, with the modified task if present
\* and otherwise the original one; the run fails only if W fails, and when it
\* succeeds the result has agent_name = W, was_executed = true and response =
\* W's output, and the router memory for the original task holds User(task),
\* Assistant(boss, reply), Assistant(W, output) in that order: exactly these
\* three when no other call of run used the task, and otherwise among the
\* messages of the other calls.
C21_ExecutesSelected ==
    \A r \in OrchRuns :
       NamedWorker(r) =>
          /\ RanExactlyW(r)
          /\ orch_pc[r] = "returned" => orch_result[r].kind \in {"Ok", "AgentError"}
          /\ Succeeded(r) =>
                LET conv == router_conversation[orch_local[r].task]
                    added == UserBossWorker(r)
                IN /\ ExecutedResult(r)
                   /\ CallsWith(orch_local[r].task) = {r} => conv = added
                   /\ \E i \in DOMAIN conv :
                         /\ conv[i] = added[1]
                         /\ \E j \in (i + 1)..Len(conv) :
                               /\ conv[j] = added[2]
                               /\ \E k \in (j + 1)..Len(conv) : conv[k] = added[3]

\* the boss named the second worker of the roster and modified the task; the
\* worker ran on the modified task and the run succeeded
C21_Witness ==
    \E r \in OrchRuns :
       /\ NamedWorker(r)
       /\ Succeeded(r)
       /\ WorkerRunsOf(r)[1].agent = 2
       /\ TaskForWorker(r) = "m"
       /\ router_conversation[orch_local[r].task] = UserBossWorker(r)

\* ---- C22 ----
BatchReturned == orch_batch.pc = "returned"
SucceededTasks == {orch_batch.tasks[r] : r \in {q \in DOMAIN orch_batch.tasks : Succeeded(q)}}

\* C22: a call of run_batch returns Ok for every task list, the empty one
\* included, with a map that holds a result for exactly the tasks whose run
\* succeeded, each result being the one a successful run of that task
\* returned; a failing run changes neither.
C22_BatchIsolation ==
    BatchReturned =>
       /\ orch_batch.returned.kind = "Ok"
       /\ DOMAIN orch_batch.results = SucceededTasks
       /\ \A t \in DOMAIN orch_batch.results :
             \E r \in DOMAIN orch_batch.tasks :
                /\ orch_batch.tasks[r] = t
                /\ Succeeded(r)
                /\ orch_batch.results[t] = orch_result[r].value


(***************************************************************************)
(* Properties of AgentShortMemory                                          *)
(***************************************************************************)
\* the calls of add for task t whose append took effect, in that order
EffectOrder(t) == SelectSeq(took_effect, LAMBDA a : add_local[a].task = t)
Quiescent == \A a \in AddCalls : add_pc[a] \in {"idle", "returned"}
AddsFor(t) == {a \in AddCalls : add_pc[a] # "idle" /\ add_local[a].task = t}

\* C23: whatever the interleaving of concurrent calls of add, the conversation
\* of each task holds the messages of the calls made for that task whose
\* append took effect, one message per call, in the order the appends took
\* effect; when all calls have returned that is one message for every call
\* made for the task; and a step of an add for one task changes the
\* conversation of no other task.
C23_AddsSerialize ==
    /\ [](\A t \in DOMAIN shared_memory :
            /\ shared_memory[t] =
                  [i \in 1..Len(EffectOrder(t)) |-> add_local[EffectOrder(t)[i]].message]
            /\ Quiescent => Len(shared_memory[t]) = Cardinality(AddsFor(t)))
    /\ [](\A t \in MemTasks : AddsFor(t) # {} /\ Quiescent => t \in DOMAIN shared_memory)
    /\ [][\A a \in AddCalls :
            add_pc'[a] # add_pc[a] =>
               \A t \in DOMAIN shared_memory :
                  t # add_local'[a].task => /\ t \in DOMAIN shared_memory'
                                            /\ shared_memory'[t] = shared_memory[t]]_vars

\* three calls have returned, two for one task and one for another; the
\* append of the call that was made first took effect last
C23_Witness ==
    /\ Quiescent
    /\ \A a \in AddCalls : add_pc[a] = "returned"
    /\ Len(shared_memory["t1"]) = 2
    /\ Len(shared_memory["t2"]) = 1
    /\ took_effect = <<2, 3, 1>>


(***************************************************************************)
(* Properties of the short-term memory of RigAgent                         *)
(***************************************************************************)
\* C24: the keys of the agent's short-term memory are at all times exactly
\* the task strings that were passed to run: once run has added its task the
\* task is a key, and no step of run creates or extends a conversation under
\* another key.
C24_KeysAreTasks ==
    /\ [](DOMAIN short_memory \subseteq {task})
    /\ [](pc # "ingest" => task \in DOMAIN short_memory)
    /\ [][\A k \in DOMAIN short_memory' :
            (k \notin DOMAIN short_memory \/ short_memory'[k] # short_memory[k]) => k = task]_vars

\* a step of run in which the retrieval of an attempt succeeded
RetrievedInAttempt ==
    /\ pc = "attempt"
    /\ pc' = "chat"
    /\ trace'.top_n = trace.top_n + 1
IsDocuments(m) ==
    /\ m.role = "User"
    /\ m.name = RagName
    /\ \E d \in Docs : m.content = <<"Documents Available: ">> \o d

\* C25: with long-term memory and rag_every_loop, a retrieval that succeeds
\* inside an attempt appends its "Documents Available" message to the
\* conversation of the task being run, which is the history given to the
\* model call that follows, and the message stays there when that call fails.
C25_RetrievalInConversation ==
    /\ [][RetrievedInAttempt =>
            /\ Len(short_memory'[task]) = Len(short_memory[task]) + 1
            /\ SubSeq(short_memory'[task], 1, Len(short_memory[task])) = short_memory[task]
            /\ IsDocuments(short_memory'[task][Len(short_memory'[task])])]_vars
    /\ [][(pc = "chat" /\ success' = FALSE) => short_memory'[task] = short_memory[task]]_vars

\* C26: a successful run(task) of an agent, SwarmsAgent as well as RigAgent,
\* has added the task to the conversation of the task as User(user_name) and
\* the response it returns as Assistant(agent name).
C26_RunAppends ==
    (sw_pc = "idle" /\ sw_result.kind = "Ok") =>
       LET conv == sw_memory[sw_task]
       IN /\ Len(conv) >= Len(sw_history) + 1
          /\ conv[Len(sw_history)] = Message("User", UserName, sw_task)
          /\ conv[Len(conv)] = Message("Assistant", AgentName, sw_result.value)

\* C27: every agent built through the configuration API has max_loops >= 1
\* and retry_attempts >= 1, so that a run that returns successfully has
\* issued at least one model call.
C27_AtLeastOneCall ==
    (Done /\ result.kind = "Ok") =>
        /\ config.max_loops >= 1
        /\ config.retry_attempts >= 1
        /\ trace.chat >= 1


\* C28: when the boss response parses as a select-agents or a create-agents
\* request, AutoSwarm::run hands the agents to a swarm-router sub-swarm that
\* runs the task on them, and run returns the result of the sub-swarm or an
\* error value; when the response parses as neither, run returns
\* UnknownBossBehavior.
AutoFinished == auto_pc \in {"idle", "panicked"} /\ auto_result.kind # "none"
C28_HandsToSubSwarm ==
    /\ (AutoFinished /\ auto_local.parsed \in {"select", "create"}) =>
          /\ auto_result.kind \in {"Ok", "SwarmRouterError"}
          /\ auto_result.kind = "Ok" =>
                sub_swarm = [ran |-> TRUE, task |-> auto_local.task,
                             agents |-> auto_local.agents]
    /\ (AutoFinished /\ auto_local.parsed = "neither") =>
          auto_result.kind = "UnknownBossBehavior"

\* C29: once a message is in the history of a conversation, no operation of
\* the conversation changes its role or content, removes it or moves it: every
\* operation leaves the previous history as a prefix of the new one.
C29_AppendOnly ==
    [][/\ Len(conv_history') >= Len(conv_history)
       /\ SubSeq(conv_history', 1, Len(conv_history)) = conv_history]_vars

\* C30: after initialize and any sequence of add_agent and remove_agent on a
\* BaseSwarm, the name index has exactly one entry per agent of the swarm and
\* maps the name of each agent to the current position of that agent in the
\* agent list.
C30_NameIndex ==
    swarm_initialized =>
        /\ Cardinality(DOMAIN agents_dict) = Len(swarm_agents)
        /\ \A i \in 1..Len(swarm_agents) :
              /\ swarm_agents[i].name \in DOMAIN agents_dict
              /\ agents_dict[swarm_agents[i].name] = i - 1

\* ---- C31 ----
NoSendBlocks ==
    \A r \in Calls : \A a \in Agents :
       /\ Len(chan[r]) <= agents
       /\ run_pc[r] # "idle" /\ producer[r] # <<>> => producer[r][a].tx # "blocked"
RunReturned(r) == run_pc[r] \in {"returned", "sent"}

\* C31: in ConcurrentWorkflow::run every producer sends at most one output into
\* a channel whose capacity is the number of agents, so that no send blocks
\* although the fan-in loop receives only after every agent has finished; a
\* call of run that has started its fan-out returns.
C31_SendsNeverBlock ==
    /\ []NoSendBlocks
    /\ \A r \in Runs : (run_pc[r] = "fanout") ~> RunReturned(r)

\* every agent of a call has sent its output, the channel is full and the
\* fan-in loop has not started
C31_Witness ==
    \E r \in Calls :
       /\ agents = 2
       /\ run_pc[r] = "fanout"
       /\ Len(chan[r]) = agents
       /\ \A a \in Agents : producer[r][a].tx = "sent"

\* ---- C32 ----
\* no future of the fan-out can take a step and the fan-out is not complete
MultiStuck ==
    /\ mt.pc = "fanout"
    /\ \E i \in DOMAIN mt.future : mt.future[i].tx = "sending"
    /\ \A i \in DOMAIN mt.future : mt.future[i].run # "running"
    /\ Len(mt.chan) >= ResultCapacity

\* the outputs of the runs that succeeded, as a bag
SucceededOutputs ==
    LET ok == {i \in DOMAIN mt.future : mt.future[i].run = "Ok"}
    IN [o \in {MultiOutput(mt.tasks[i]) : i \in ok} |->
          Cardinality({i \in ok : MultiOutput(mt.tasks[i]) = o})]
ReturnedOutputs ==
    [o \in {mt.results[k] : k \in DOMAIN mt.results} |->
       Cardinality({k \in DOMAIN mt.results : mt.results[k] = o})]

\* C32: run_multiple_tasks(tasks) terminates for every task list whenever each
\* run terminates: no producer stays blocked on the result channel while the
\* receiver has not started; and it returns the outputs of exactly the runs
\* that succeeded.
C32_MultipleTasksReturn ==
    /\ ~MultiStuck
    /\ mt.pc = "returned" =>
          /\ mt.result.kind = "Ok"
          /\ ReturnedOutputs = SucceededOutputs

\* ---- C33 ----
\* the retrieval before the loop added its document to the conversation of the task
PreLoopRetrieved ==
    /\ task \in DOMAIN short_memory
    /\ \E i \in DOMAIN short_memory[task] : short_memory[task][i].name = RagName
\* every retrieval made in the loop so far returned an error
EveryLoopQueryFailed == trace.rag_failed = trace.top_n - 1
LoopRetrievals == trace.top_n - 1
FailingIndex ==
    /\ config.rag_every_loop /\ long_term_memory
    /\ PreLoopRetrieved /\ EveryLoopQueryFailed

\* C33 (as stated): with rag_every_loop, a pre-loop retrieval that succeeded
\* and an index whose every in-loop query fails, run performs exactly
\* retry_attempts retrievals in the loop and zero model calls and does not fail.
C33_Original ==
    (Done /\ FailingIndex) =>
        /\ LoopRetrievals = config.retry_attempts
        /\ trace.chat = 0
        /\ result.kind = "Ok"

\* C33 (amended): with rag_every_loop, a pre-loop retrieval that succeeded and
\* an index whose every in-loop query fails, each failed retrieval consumes
\* one attempt and no model call is issued; a run that enters the loop makes
\* exactly retry_attempts retrievals, all in one iteration, and one that does
\* not enter it (max_loops = 0 or the checkpoint before the loop failed) makes
\* none; run returns Ok with the empty string unless, with autosave, the
\* checkpoint before or after the loop failed.
C33_FailedRetrievalConsumesAttempt ==
    FailingIndex =>
        /\ trace.chat = 0
        /\ trace.iterations <= 1
        /\ LoopRetrievals <= config.retry_attempts
        /\ pc = "attempt" => LoopRetrievals = attempt
        /\ Done =>
             /\ LoopRetrievals = IF trace.iterations = 1 THEN config.retry_attempts ELSE 0
             /\ trace.iterations = 0 =>
                   (config.max_loops = 0 \/ (config.autosave /\ trace.checkpoint_failed))
             /\ \/ result = [kind |-> "Ok", value |-> <<>>]
                \/ /\ result.kind = "Err"
                   /\ config.autosave /\ trace.checkpoint_failed

C33_Witness ==
    /\ Done /\ FailingIndex
    /\ config.max_loops = 2 /\ config.retry_attempts = 2
    /\ LoopRetrievals = 2 /\ trace.chat = 0 /\ trace.iterations = 1
    /\ result.kind = "Ok"

\* ---- C34 ----
\* C34: connect_agents on two registered agents completes normally, with an
\* edge index or CycleDetected: the cycle check never indexes its visited and
\* recursion-stack arrays, sized by the node count, with the index of a
\* surviving node at or beyond that count.
C34_ConnectCompletes ==
    (/\ last_call.op = "connect_agents"
     /\ last_call.from \in graph_agents
     /\ last_call.to \in graph_agents)
       => last_call.kind \in {"Ok", "CycleDetected"}

\* ---- C35 ----
\* the number of outgoing edges to node n that fire on the output of run i
FiredEdges(i, n) ==
    IF exec_log[i].result.kind # "Ok" THEN 0
    ELSE LET edges == edges_directed(workflow, exec_log[i].node) IN
         Cardinality({k \in DOMAIN edges :
                        /\ edges[k].target = n
                        /\ should_flow(edges[k].flow, exec_log[i].result.value)})
\* the number of fired edges into n over the first i runs of the call
RECURSIVE FiredInto(_, _)
FiredInto(n, i) == IF i = 0 THEN 0 ELSE FiredEdges(i, n) + FiredInto(n, i - 1)
RunsOf(n) == Cardinality({i \in DOMAIN exec_log : exec_log[i].node = n})

\* the number of fired edges into n in the call, the entry into the start
\* node included
FiredPaths(n) ==
    FiredInto(n, Len(exec_log)) + (IF n = exec_log[1].node THEN 1 ELSE 0)

\* C35: in one call of execute_workflow a node reached along k >= 2 fired
\* paths is run k times, once per incoming fired edge, and the result map
\* holds the result of its last run.
C35_RunPerFiredEdge ==
    (exec_pc = "done" /\ exec_log # <<>>) =>
        \A n \in node_indices(workflow) :
           FiredPaths(n) >= 2 =>
              /\ RunsOf(n) = FiredPaths(n)
              /\ exec_return.kind = "Ok"
              /\ workflow.nodes[n + 1] \in DOMAIN exec_return.results
              /\ exec_return.results[workflow.nodes[n + 1]]
                    = LastResultOf(workflow.nodes[n + 1])

\* ---- C36 ----
FailedPersisting(r) == run_result[r].kind = "FilePersistenceError"

\* C36: a task accepted by run stays in the task set when that run fails
\* serializing or persisting the metadata: every other run of the same task
\* returns TaskAlreadyExists and the agents are run for the task only once.
C36_FailedTaskStaysTaken ==
    \A r \in Calls :
       FailedPersisting(r) =>
          LET t == batch_tasks[r] IN
            /\ t \in tasks
            /\ fanouts[t] = 1
            /\ \A q \in Calls \ {r} :
                  batch_tasks[q] = t =>
                     /\ run_pc[q] \notin {"fanout", "recv", "save"}
                     /\ run_result[q] # NoResult =>
                           run_result[q].kind = "TaskAlreadyExists"

C36_Witness ==
    \E r, q \in Calls :
       /\ r < q /\ batch_tasks[r] = batch_tasks[q]
       /\ FailedPersisting(r)
       /\ run_result[q].kind = "TaskAlreadyExists"
       /\ agents = 2
       /\ fanouts[batch_tasks[r]] = 1
       /\ Len(agents_output_schema[r]) = 2

\* ---- C37 ----
\* no operation of a save failed for a reason outside the saves
NoOutsideFailure == \A s \in Saves : save_result[s] \notin {"IoError", "JsonError"}
AllSavesReturned == \A s \in Saves : save_pc[s] = "returned"

\* C37: two saves of the same target made by concurrent runs of the agent do
\* not interleave their steps: unless an operation fails for an outside
\* reason each save succeeds, and after both the target is one complete
\* payload and no .tmp or .bak file is left.
C37_ConcurrentSaves ==
    NoOutsideFailure =>
        /\ \A s \in Saves : save_result[s] \in {"none", "Ok"}
        /\ AllSavesReturned =>
              /\ fs[path] \in {Payload(s) : s \in Saves}
              /\ fs[temp_path] = NoFile
              /\ fs[backup_path] = NoFile

\* the same for saves that run one after the other
SuccessiveSaves == ~overlapped => C37_ConcurrentSaves

\* ---- C38 ----
\* caller c holds one of the two locks and waits for the lock held by d
WaitsFor(c, d) ==
    /\ lk.pc[c] = "second"
    /\ lk.holder[LockOrder(lk.call[c].op)[1]] = c
    /\ lk.holder[LockOrder(lk.call[c].op)[2]] = d

\* C38: concurrent calls of initialize and get_agent_by_name both complete:
\* no interleaving leaves each call holding one of the locks agents and
\* agents_dict while waiting for the other.
C38_NoLockCycle ==
    \A c, d \in Callers : ~(c # d /\ WaitsFor(c, d) /\ WaitsFor(d, c))

\* ---- C39 ----
TreeAgentIds == DOMAIN tree.nodes
BaseAgentIds == {swarm_agents[i].id : i \in DOMAIN swarm_agents}

\* C39: after initialize and any sequence of add_child and remove_agent the
\* agent ids held in the nodes of the tree are the agent ids held in the base
\* swarm; removing a node with descendants removes its subtree from both.
C39_TreeMatchesBase ==
    tree.root_id # NoParent => TreeAgentIds = BaseAgentIds

\* ---- C40 ----
\* the same roles, names and contents in the same order
SameMessages(h1, h2) ==
    /\ Len(h1) = Len(h2)
    /\ \A i \in DOMAIN h1 :
          /\ h1[i].role = h2[i].role
          /\ Text(h1[i].content) = Text(h2[i].content)

\* C40: import_from_file applied to the file written by export_to_file for
\* the conversation completes and restores a history with the same roles,
\* names and contents in the same order.
C40_ExportImportRoundTrip ==
    [][(/\ conv_export'.imports = conv_export.imports + 1
        /\ conv_export.file = Display(conv_history)) =>
          /\ conv_pc' = "ready"
          /\ SameMessages(conv_history', conv_history)]_vars

====
